---------------------------- MODULE Spec2Model ----------------------------
(***************************************************************************)
(* The Algorand (AVM) "exact" payment scheme of x402: the facilitator's    *)
(* verify and settle handlers, the transaction decoder and validators      *)
(* they call, and the facilitator signer they drive.                       *)
(*                                                                         *)
(* One request is modelled: a PaymentPayload and PaymentRequirements       *)
(* arrive (the payload an honest client builds, changed in up to MaxEdits  *)
(* places by whoever sent it), then verify or settle runs on them, one     *)
(* action per step between two signer calls.                               *)
(* Python's 0-based indexes are kept in the state; sequences are 1-based,  *)
(* so transaction i of a group g is g[i + 1].                              *)
(***************************************************************************)
EXTENDS Integers, Sequences, FiniteSets, TLC

\* ------------------------------------------------------------- bounds
\* Number of places in which the received payload and requirements may
\* differ from what the honest client built for the honest requirements.
MaxEdits == 2
\* the fractional digits a USD amount is modelled with
MoneyDigits == 7
\* the money parsers a server scheme registers at most
MaxParsers == 2
\* the concurrent callers of _get_client on one scheme
MaxCallers == 3
\* the registrations made on one x402Client
MaxRegistrations == 3
\* the entries of indexes_to_sign in one sign_group call
MaxIndexes == 2

\* ---------------------------------------------------------- constants
SCHEME_EXACT == "exact"
MIN_TXN_FEE == 1000
DEFAULT_DECIMALS == 6
MAX_GROUP_SIZE == 16
MAX_REASONABLE_FEE == 16000
USDC_MAINNET_ASA_ID == 31566704
USDC_TESTNET_ASA_ID == 10458941
MAINNET_GENESIS_HASH == "wGHE2Pwdvd7S12BL5FaOP20EGYesN73ktiC1qzkkit8="
TESTNET_GENESIS_HASH == "SGO1GKSzyE7IEPItTxCByw9x8FmnrCDexi9/cOUJOiI="
ALGORAND_MAINNET_CAIP2 == "algorand:wGHE2Pwdvd7S12BL5FaOP20EGYesN73ktiC1qzkkit8="
ALGORAND_TESTNET_CAIP2 == "algorand:SGO1GKSzyE7IEPItTxCByw9x8FmnrCDexi9/cOUJOiI="

TXN_TYPE_PAYMENT == "pay"
TXN_TYPE_ASSET_TRANSFER == "axfer"
TXN_TYPE_KEY_REGISTRATION == "keyreg"
BLOCKED_TXN_TYPES == {TXN_TYPE_KEY_REGISTRATION}

ERR_UNSUPPORTED_SCHEME == "unsupported_scheme"
ERR_NETWORK_MISMATCH == "network_mismatch"
ERR_INVALID_PAYMENT_INDEX == "invalid_exact_avm_payload_payment_index"
ERR_GROUP_TOO_LARGE == "invalid_exact_avm_payload_group_too_large"
ERR_EMPTY_GROUP == "invalid_exact_avm_payload_empty_group"
ERR_GROUP_DECODE_FAILED == "invalid_exact_avm_payload_group_decode_failed"
ERR_BLOCKED_TXN_TYPE == "invalid_exact_avm_payload_blocked_transaction_type"
ERR_INVALID_ASSET_ID == "invalid_exact_avm_payload_asset_id_mismatch"
ERR_RECIPIENT_MISMATCH == "invalid_exact_avm_payload_recipient_mismatch"
ERR_AMOUNT_INSUFFICIENT == "invalid_exact_avm_payload_amount_insufficient"
ERR_INVALID_GROUP_ID == "invalid_exact_avm_payload_group_id_mismatch"
ERR_MISSING_GROUP_ID == "invalid_exact_avm_payload_missing_group_id"
ERR_MISSING_SIGNATURE == "invalid_exact_avm_payload_missing_signature"
ERR_FEE_PAYER_MISSING == "invalid_exact_avm_payload_missing_fee_payer"
ERR_FEE_PAYER_NOT_MANAGED == "fee_payer_not_managed_by_facilitator"
ERR_FEE_PAYER_INVALID_TXN == "invalid_exact_avm_payload_fee_payer_transaction_invalid"
ERR_FEE_PAYER_TRANSFERRING == "invalid_exact_avm_payload_fee_payer_transferring_funds"
ERR_FEE_PAYER_HAS_AMOUNT == "invalid_exact_avm_payload_fee_payer_has_amount"
ERR_FEE_PAYER_HAS_CLOSE == "invalid_exact_avm_payload_fee_payer_has_close_to"
ERR_FEE_PAYER_HAS_REKEY == "invalid_exact_avm_payload_fee_payer_has_rekey_to"
ERR_SIMULATION_FAILED == "transaction_simulation_failed"
ERR_TRANSACTION_FAILED == "transaction_failed"
ERR_REKEY_DETECTED == "invalid_exact_avm_payload_rekey_detected"
ERR_CLOSE_TO_DETECTED == "invalid_exact_avm_payload_close_to_detected"
ERR_GENESIS_HASH_MISMATCH == "invalid_exact_avm_payload_genesis_hash_mismatch"

\* Python's None, for a field that holds a string and for one that holds an int.
NoneVal == "None"
NoneInt == 0 - 1
\* The value an operator returns in place of raising ValueError.
ValueError == "ValueError"

\* A decimal string such as requirements.amount, and one int() cannot parse.
NumStr(n) == [numeric |-> TRUE, val |-> n]
BadStr == [numeric |-> FALSE, val |-> 0]

\* Python truthiness of an optional string: None and "" are falsy.
Truthy(s) == s # NoneVal /\ s # ""

\* -------------------------------------------------------- the parties
\* The client's address, the resource server's payTo, a third party's
\* address, and the addresses the facilitator's signer holds keys for.
ClientAddr == "A"
PayToAddr == "B"
OtherAddr == "E"
ManagedAddrs == {"F", "G"}

\* FacilitatorAlgorandSigner.get_addresses
get_addresses == ManagedAddrs

\* ----------------------------------------------------------- networks
NETWORK_CONFIGS == {ALGORAND_MAINNET_CAIP2, ALGORAND_TESTNET_CAIP2}

V1_NAMES == {"algorand-mainnet", "algorand-testnet", "algorand"}

V1_TO_V2_NETWORK_MAP(n) ==
    IF n = "algorand-testnet" THEN ALGORAND_TESTNET_CAIP2 ELSE ALGORAND_MAINNET_CAIP2

\* startswith("algorand:"), over the network strings the model uses
IsCaip2Algorand(n) == n \in {ALGORAND_MAINNET_CAIP2, ALGORAND_TESTNET_CAIP2, "algorand:unknown"}

\* normalize_network letting every algorand: identifier through
normalize_network_AnyReference(network) ==
    IF IsCaip2Algorand(network) THEN network
    ELSE IF network \in V1_NAMES THEN V1_TO_V2_NETWORK_MAP(network)
    ELSE ValueError

normalize_network(network) ==
    IF IsCaip2Algorand(network)
    THEN IF network \in NETWORK_CONFIGS THEN network ELSE ValueError
    ELSE IF network \in V1_NAMES THEN V1_TO_V2_NETWORK_MAP(network)
    ELSE ValueError

get_genesis_hash(network) ==
    LET caip2 == normalize_network(network)
    IN IF caip2 = ALGORAND_MAINNET_CAIP2 THEN MAINNET_GENESIS_HASH
       ELSE IF caip2 = ALGORAND_TESTNET_CAIP2 THEN TESTNET_GENESIS_HASH
       ELSE ValueError

\* ------------------------------------------------------- transactions
\* One entry of paymentGroup as it travels: base64(msgpack) of a transaction
\* dict, wrapped with a signature or not.  ok = FALSE is an entry that is
\* not base64 of a msgpack transaction.  A key msgpack omits is NoneVal
\* (bytes) or 0 (integers).  sig names who signed: NoneVal for no "sig" key.
WireTxn(type, snd, sig, fee, gh, grp) ==
    [ok |-> TRUE, sig |-> sig, type |-> type, snd |-> snd, fee |-> fee,
     fv |-> 0, lv |-> 0, gh |-> gh, grp |-> grp, rekey |-> NoneVal,
     rcv |-> NoneVal, amt |-> 0, close |-> NoneVal,
     xaid |-> 0, arcv |-> NoneVal, aamt |-> 0, aclose |-> NoneVal]

\* decode_transaction_bytes taking every entry for an unsigned transaction
decode_transaction_bytes_Unsigned(w) ==
    [type |-> w.type,
     sender |-> IF w.snd = NoneVal THEN "" ELSE w.snd,
     fee |-> w.fee,
     first_valid |-> w.fv,
     last_valid |-> w.lv,
     genesis_hash |-> IF w.gh = NoneVal THEN "" ELSE w.gh,
     group |-> w.grp,
     is_signed |-> FALSE,
     rekey_to |-> w.rekey,
     receiver |-> IF w.type = TXN_TYPE_PAYMENT THEN w.rcv ELSE NoneVal,
     amount |-> IF w.type = TXN_TYPE_PAYMENT THEN w.amt ELSE NoneInt,
     close_remainder_to |-> IF w.type = TXN_TYPE_PAYMENT THEN w.close ELSE NoneVal,
     asset_index |-> IF w.type = TXN_TYPE_ASSET_TRANSFER THEN w.xaid ELSE NoneInt,
     asset_receiver |-> IF w.type = TXN_TYPE_ASSET_TRANSFER THEN w.arcv ELSE NoneVal,
     asset_amount |-> IF w.type = TXN_TYPE_ASSET_TRANSFER THEN w.aamt ELSE NoneInt,
     asset_close_to |-> IF w.type = TXN_TYPE_ASSET_TRANSFER THEN w.aclose ELSE NoneVal]

\* decode_transaction_bytes: the DecodedTransactionInfo of a decodable entry.
\* The type-specific fields are read only for the entry's own type.
decode_transaction_bytes(w) ==
    [type |-> w.type,
     sender |-> IF w.snd = NoneVal THEN "" ELSE w.snd,
     fee |-> w.fee,
     first_valid |-> w.fv,
     last_valid |-> w.lv,
     genesis_hash |-> IF w.gh = NoneVal THEN "" ELSE w.gh,
     group |-> w.grp,
     is_signed |-> w.sig # NoneVal,
     rekey_to |-> w.rekey,
     receiver |-> IF w.type = TXN_TYPE_PAYMENT THEN w.rcv ELSE NoneVal,
     amount |-> IF w.type = TXN_TYPE_PAYMENT THEN w.amt ELSE NoneInt,
     close_remainder_to |-> IF w.type = TXN_TYPE_PAYMENT THEN w.close ELSE NoneVal,
     asset_index |-> IF w.type = TXN_TYPE_ASSET_TRANSFER THEN w.xaid ELSE NoneInt,
     asset_receiver |-> IF w.type = TXN_TYPE_ASSET_TRANSFER THEN w.arcv ELSE NoneVal,
     asset_amount |-> IF w.type = TXN_TYPE_ASSET_TRANSFER THEN w.aamt ELSE NoneInt,
     asset_close_to |-> IF w.type = TXN_TYPE_ASSET_TRANSFER THEN w.aclose ELSE NoneVal]

\* decode_base64_transaction raises ValueError on an entry that does not decode.
Decodable(w) == w.ok

\* verify step 3: every entry decoded, in group order
DecodeGroup(payment_group) ==
    [i \in 1..Len(payment_group) |-> decode_transaction_bytes(payment_group[i])]

is_blocked_transaction_type(txn_type) == txn_type \in BLOCKED_TXN_TYPES

\* validate_no_security_risks: an error code, or NoneVal
validate_no_security_risks(txn_info) ==
    IF Truthy(txn_info.rekey_to) THEN ERR_REKEY_DETECTED
    ELSE IF txn_info.type = TXN_TYPE_PAYMENT /\ Truthy(txn_info.close_remainder_to)
    THEN ERR_CLOSE_TO_DETECTED
    ELSE IF txn_info.type = TXN_TYPE_ASSET_TRANSFER /\ Truthy(txn_info.asset_close_to)
    THEN ERR_CLOSE_TO_DETECTED
    ELSE IF is_blocked_transaction_type(txn_info.type) THEN ERR_BLOCKED_TXN_TYPE
    ELSE NoneVal

\* validate_fee_payer_transaction without its amount check
validate_fee_payer_transaction_NoAmountCheck(txn_info, expected_fee_payer) ==
    IF txn_info.type # TXN_TYPE_PAYMENT THEN ERR_FEE_PAYER_INVALID_TXN
    ELSE IF txn_info.sender # expected_fee_payer THEN ERR_FEE_PAYER_INVALID_TXN
    ELSE IF txn_info.receiver # expected_fee_payer THEN ERR_FEE_PAYER_INVALID_TXN
    ELSE IF Truthy(txn_info.close_remainder_to) THEN ERR_FEE_PAYER_HAS_CLOSE
    ELSE IF Truthy(txn_info.rekey_to) THEN ERR_FEE_PAYER_HAS_REKEY
    ELSE NoneVal

\* validate_fee_payer_transaction: an error code, or NoneVal
validate_fee_payer_transaction(txn_info, expected_fee_payer) ==
    IF txn_info.type # TXN_TYPE_PAYMENT THEN ERR_FEE_PAYER_INVALID_TXN
    ELSE IF txn_info.sender # expected_fee_payer THEN ERR_FEE_PAYER_INVALID_TXN
    ELSE IF txn_info.receiver # expected_fee_payer THEN ERR_FEE_PAYER_INVALID_TXN
    ELSE IF txn_info.amount # NoneInt /\ txn_info.amount # 0 /\ txn_info.amount > 0
    THEN ERR_FEE_PAYER_HAS_AMOUNT
    ELSE IF Truthy(txn_info.close_remainder_to) THEN ERR_FEE_PAYER_HAS_CLOSE
    ELSE IF Truthy(txn_info.rekey_to) THEN ERR_FEE_PAYER_HAS_REKEY
    ELSE NoneVal

\* ------------------------------------------- verify, the static checks
\* Each check is the code's condition for returning at that step: an error
\* code, NoneVal when the check passes, ValueError when the step raises.

\* step 1 comparing the networks before the schemes
SchemeNetworkError_NetworkFirst(accepted, requirements) ==
    IF accepted.network # requirements.network THEN ERR_NETWORK_MISMATCH
    ELSE IF accepted.scheme # SCHEME_EXACT \/ requirements.scheme # SCHEME_EXACT
    THEN ERR_UNSUPPORTED_SCHEME
    ELSE NoneVal

\* step 1 (facilitator.py 147-151)
SchemeNetworkError(accepted, requirements) ==
    IF accepted.scheme # SCHEME_EXACT \/ requirements.scheme # SCHEME_EXACT
    THEN ERR_UNSUPPORTED_SCHEME
    ELSE IF accepted.network # requirements.network THEN ERR_NETWORK_MISMATCH
    ELSE NoneVal

\* step 2 with the size comparison off by one (>= for >)
GroupSizeError_OffByOne(payment_group, payment_index) ==
    IF Len(payment_group) = 0 THEN ERR_EMPTY_GROUP
    ELSE IF Len(payment_group) >= MAX_GROUP_SIZE THEN ERR_GROUP_TOO_LARGE
    ELSE IF payment_index < 0 \/ payment_index >= Len(payment_group)
    THEN ERR_INVALID_PAYMENT_INDEX
    ELSE NoneVal

\* step 2 (facilitator.py 157-164)
GroupSizeError(payment_group, payment_index) ==
    IF Len(payment_group) = 0 THEN ERR_EMPTY_GROUP
    ELSE IF Len(payment_group) > MAX_GROUP_SIZE THEN ERR_GROUP_TOO_LARGE
    ELSE IF payment_index < 0 \/ payment_index >= Len(payment_group)
    THEN ERR_INVALID_PAYMENT_INDEX
    ELSE NoneVal

\* step 3 (facilitator.py 167-178)
GroupDecodeError(payment_group) ==
    IF \E i \in 1..Len(payment_group) : ~Decodable(payment_group[i])
    THEN ERR_GROUP_DECODE_FAILED
    ELSE NoneVal

\* step 4 comparing group ids only where a later transaction has one
GroupIdError_WhenPresent(decoded_txns) ==
    IF Len(decoded_txns) > 1
    THEN IF ~Truthy(decoded_txns[1].group) THEN ERR_MISSING_GROUP_ID
         ELSE IF \E i \in 2..Len(decoded_txns) :
                    /\ Truthy(decoded_txns[i].group)
                    /\ decoded_txns[i].group # decoded_txns[1].group
         THEN ERR_INVALID_GROUP_ID
         ELSE NoneVal
    ELSE NoneVal

\* step 4 (facilitator.py 181-191)
GroupIdError(decoded_txns) ==
    IF Len(decoded_txns) > 1
    THEN IF ~Truthy(decoded_txns[1].group) THEN ERR_MISSING_GROUP_ID
         ELSE IF \E i \in 2..Len(decoded_txns) : decoded_txns[i].group # decoded_txns[1].group
         THEN ERR_INVALID_GROUP_ID
         ELSE NoneVal
    ELSE NoneVal

\* step 5 run on the first transaction of the group alone
GenesisHashError_FirstOnly(decoded_txns, expected_genesis_hash) ==
    IF decoded_txns[1].genesis_hash # expected_genesis_hash
    THEN ERR_GENESIS_HASH_MISMATCH
    ELSE NoneVal

\* step 5 (facilitator.py 194-199)
GenesisHashError(decoded_txns, expected_genesis_hash) ==
    IF \E i \in 1..Len(decoded_txns) : decoded_txns[i].genesis_hash # expected_genesis_hash
    THEN ERR_GENESIS_HASH_MISMATCH
    ELSE NoneVal

\* step 6 run on the first transaction of the group alone
SecurityError_FirstOnly(decoded_txns) ==
    validate_no_security_risks(decoded_txns[1])

\* step 6 (facilitator.py 202-207): the error of the first transaction, in
\* group order, that has one
SecurityError(decoded_txns) ==
    LET bad == {i \in 1..Len(decoded_txns) :
                    validate_no_security_risks(decoded_txns[i]) # NoneVal}
    IN IF bad = {} THEN NoneVal
       ELSE validate_no_security_risks(
                decoded_txns[CHOOSE i \in bad : \A j \in bad : i <= j])

\* step 7 with the amount comparison off by one (<= for <)
PaymentTxnError_OffByOne(payment_txn, requirements) ==
    IF payment_txn.type # TXN_TYPE_ASSET_TRANSFER THEN ERR_INVALID_ASSET_ID
    ELSE IF ~requirements.asset.numeric THEN ValueError
    ELSE IF payment_txn.asset_index # requirements.asset.val THEN ERR_INVALID_ASSET_ID
    ELSE IF payment_txn.asset_receiver # requirements.payTo THEN ERR_RECIPIENT_MISMATCH
    ELSE IF ~requirements.amount.numeric THEN ValueError
    ELSE IF (IF payment_txn.asset_amount = NoneInt THEN 0 ELSE payment_txn.asset_amount)
              <= requirements.amount.val
    THEN ERR_AMOUNT_INSUFFICIENT
    ELSE IF ~payment_txn.is_signed THEN ERR_MISSING_SIGNATURE
    ELSE NoneVal

\* step 7 (facilitator.py 214-247); int() of a non-numeric string raises
PaymentTxnError(payment_txn, requirements) ==
    IF payment_txn.type # TXN_TYPE_ASSET_TRANSFER THEN ERR_INVALID_ASSET_ID
    ELSE IF ~requirements.asset.numeric THEN ValueError
    ELSE IF payment_txn.asset_index # requirements.asset.val THEN ERR_INVALID_ASSET_ID
    ELSE IF payment_txn.asset_receiver # requirements.payTo THEN ERR_RECIPIENT_MISMATCH
    ELSE IF ~requirements.amount.numeric THEN ValueError
    ELSE IF (IF payment_txn.asset_amount = NoneInt THEN 0 ELSE payment_txn.asset_amount)
              < requirements.amount.val
    THEN ERR_AMOUNT_INSUFFICIENT
    ELSE IF ~payment_txn.is_signed THEN ERR_MISSING_SIGNATURE
    ELSE NoneVal

\* step 8 switched off
SelfCustodyError_Off(payment_txn, signer_addresses) == NoneVal

\* step 8, the self-custody guard (facilitator.py 253-259)
SelfCustodyError(payment_txn, signer_addresses) ==
    IF payment_txn.sender \in signer_addresses THEN ERR_FEE_PAYER_TRANSFERRING
    ELSE NoneVal

\* the managed-address check switched off
FeePayerManagedError_Off(fee_payer_str, signer_addresses) == NoneVal

\* facilitator.py 264-267
FeePayerManagedError(fee_payer_str, signer_addresses) ==
    IF fee_payer_str \notin signer_addresses THEN ERR_FEE_PAYER_NOT_MANAGED
    ELSE NoneVal

\* the search for the fee payer's transaction restricted to payments
FindFeePayerIndex_PayOnly(decoded_txns, fee_payer_str) ==
    LET hits == {i \in 1..Len(decoded_txns) :
                    /\ decoded_txns[i].sender = fee_payer_str
                    /\ decoded_txns[i].type = TXN_TYPE_PAYMENT}
    IN IF hits = {} THEN NoneInt
       ELSE (CHOOSE i \in hits : \A j \in hits : i <= j) - 1

\* facilitator.py 270-273: the 0-based index of the first
\* transaction whose sender is the fee payer, NoneInt when there is none
FindFeePayerIndex(decoded_txns, fee_payer_str) ==
    LET hits == {i \in 1..Len(decoded_txns) : decoded_txns[i].sender = fee_payer_str}
    IN IF hits = {} THEN NoneInt
       ELSE (CHOOSE i \in hits : \A j \in hits : i <= j) - 1

\* facilitator.py 261-286: the fee-payer block, entered when feePayer is set
FeePayerError(decoded_txns, fee_payer_str, signer_addresses) ==
    IF FeePayerManagedError(fee_payer_str, signer_addresses) # NoneVal
    THEN FeePayerManagedError(fee_payer_str, signer_addresses)
    ELSE IF FindFeePayerIndex(decoded_txns, fee_payer_str) = NoneInt
    THEN ERR_FEE_PAYER_MISSING
    ELSE validate_fee_payer_transaction(
             decoded_txns[FindFeePayerIndex(decoded_txns, fee_payer_str) + 1],
             fee_payer_str)

\* What verify has decided when it reaches step 9 or returns before it:
\* kind "raise" (an exception leaves verify), "return" (isValid = false with
\* reason and payer) or "continue" (all static checks passed).
Decision(kind, reason, payer, fee_payer_index) ==
    [kind |-> kind, reason |-> reason, payer |-> payer,
     fee_payer_index |-> fee_payer_index]

\* a recipient mismatch noted but verify going on to the next check
Step_GoesOn(err, payer, rest) ==
    IF err = ValueError THEN Decision("raise", ValueError, "", NoneInt)
    ELSE IF err # NoneVal /\ err # ERR_RECIPIENT_MISMATCH
    THEN Decision("return", err, payer, NoneInt)
    ELSE rest

\* One check's outcome turned into verify's decision, or the rest of verify
Step(err, payer, rest) ==
    IF err = ValueError THEN Decision("raise", ValueError, "", NoneInt)
    ELSE IF err # NoneVal THEN Decision("return", err, payer, NoneInt)
    ELSE rest

\* the payer taken from the first transaction of the group
VerifyPayer_First(p) == decode_transaction_bytes(p.paymentGroup[1]).sender

\* verify's local payer (facilitator.py 210-211)
VerifyPayer(p) == decode_transaction_bytes(p.paymentGroup[p.paymentIndex + 1]).sender

\* ExactAvmScheme.verify, lines 142-286
VerifyStatic(payload, accepted, requirements) ==
    LET caip2_network == normalize_network(requirements.network)
        payment_group == payload.paymentGroup
        payment_index == payload.paymentIndex
        decoded_txns == DecodeGroup(payment_group)
        payment_txn == decoded_txns[payment_index + 1]
        payer == VerifyPayer(payload)
        fee_payer_str == requirements.feePayer
        signer_addresses == get_addresses
    IN
    Step(IF caip2_network = ValueError THEN ValueError ELSE NoneVal, "",
    Step(SchemeNetworkError(accepted, requirements), "",
    Step(GroupSizeError(payment_group, payment_index), "",
    Step(GroupDecodeError(payment_group), "",
    Step(GroupIdError(decoded_txns), "",
    Step(GenesisHashError(decoded_txns, get_genesis_hash(caip2_network)), "",
    Step(SecurityError(decoded_txns), "",
    Step(PaymentTxnError(payment_txn, requirements), payer,
    Step(SelfCustodyError(payment_txn, signer_addresses), payer,
    Step(IF Truthy(fee_payer_str)
         THEN FeePayerError(decoded_txns, fee_payer_str, signer_addresses)
         ELSE NoneVal, payer,
    Decision("continue", NoneVal, payer,
             IF Truthy(fee_payer_str)
             THEN FindFeePayerIndex(decoded_txns, fee_payer_str)
             ELSE NoneInt)))))))))))

\* ------------------------------------------------------------ signer
\* FacilitatorAlgorandSigner.sign_group: a copy of the group in which every
\* index of indexes_to_sign that lies inside the group carries the fee
\* payer's signature (an entry already signed is signed again).
sign_group(group_bytes, fee_payer, indexes_to_sign) ==
    [i \in 1..Len(group_bytes) |->
        IF (i - 1) \in indexes_to_sign
        THEN [group_bytes[i] EXCEPT !.sig = fee_payer]
        ELSE group_bytes[i]]

\* FacilitatorAlgorandSigner._get_private_key: sign_group raises ValueError
\* when the signer holds no key for fee_payer
SignerHasKey(fee_payer) == fee_payer \in get_addresses

\* One signer call as the call log keeps it: the method, the handler whose
\* body made the call, the arguments, what came back, and whether it raised.
NotSent == [signer |-> NoneVal, endpoint |-> NoneVal, body |-> <<>>]
Call(fn, by, fee_payer, indexes, group, result, raised) ==
    [fn |-> fn, by |-> by, fee_payer |-> fee_payer, indexes |-> indexes,
     group |-> group, result |-> result, txid |-> "", raised |-> raised,
     sent |-> NotSent, rounds |-> 0]

\* A call of send_group or of confirm_transaction as the call log keeps it:
\* txid is what send_group returned ("" when it raised), and what
\* confirm_transaction was given.
TxCall(fn, group, id, raised) ==
    [Call(fn, "settle", NoneVal, {}, group, <<>>, raised) EXCEPT !.txid = id]

\* confirm_transaction(txid, network, rounds=4): the rounds waited at most
\* when the caller passes none
DEFAULT_ROUNDS == 4

\* settle's call of confirm_transaction(txid, caip2_network) as the call log
\* keeps it: no rounds argument, so the default applies
ConfirmCall(id, raised) ==
    [TxCall("confirm_transaction", <<>>, id, raised) EXCEPT !.rounds = DEFAULT_ROUNDS]

\* The two signers of the repository: the built-in one of signers.py and
\* the one the facilitator example implements.
FacilitatorAlgorandSigner == "FacilitatorAlgorandSigner"
AlgorandFacilitatorSigner == "AlgorandFacilitatorSigner"
Signers == {FacilitatorAlgorandSigner, AlgorandFacilitatorSigner}

\* One transaction of the body handed to the node: the bytes of the entry,
\* as they came or as encoded again from the decoded object.
Submitted(txn_bytes, reencoded) == [txn |-> txn_bytes, reencoded |-> reencoded]

\* send_group: signers.py 591-618 decodes every entry to a
\* SignedTransaction and hands the objects to client.send_transactions,
\* which encodes them again; examples/python/facilitator/main.py 187-194
\* joins the bytes and hands them to send_raw_transaction.
send_group(signer, group_bytes) ==
    IF signer = FacilitatorAlgorandSigner
    THEN [signer |-> signer, endpoint |-> "send_transactions",
          body |-> [i \in 1..Len(group_bytes) |-> Submitted(group_bytes[i], TRUE)]]
    ELSE [signer |-> signer, endpoint |-> "send_raw_transaction",
          body |-> [i \in 1..Len(group_bytes) |-> Submitted(group_bytes[i], FALSE)]]

\* signers.py 603-612: an entry that decodes to an unsigned Transaction
\* makes the built-in send_group raise ValueError
SendMustRaise(signer, group_bytes) ==
    /\ signer = FacilitatorAlgorandSigner
    /\ \E i \in 1..Len(group_bytes) : group_bytes[i].sig = NoneVal

\* A call of send_group as the call log keeps it: what the signer handed
\* to the node, nothing when it raised before.
SendCall(signer, group, id, raised) ==
    [TxCall("send_group", group, id, raised) EXCEPT
        !.sent = IF SendMustRaise(signer, group) THEN [NotSent EXCEPT !.signer = signer]
                 ELSE send_group(signer, group)]

\* The transaction ids send_group can return: the id of the group's first
\* transaction, which the network computes.
TxIds == {"TXID", "TXID2"}

\* ------------------------------------------------------------ client
\* The price the requirements ask, in atomic units (the tests' "1000").
PriceAtomic == 1000

\* Python values of the client's encoding chain.  A transaction t is carried
\* as bytes or as str, base64-encoded depth times over its msgpack bytes:
\* depth 0 is the raw msgpack, depth 1 the base64 of it.
PyBytes(depth, txn) == [py |-> "bytes", depth |-> depth, txn |-> txn]
PyStr(depth, txn) == [py |-> "str", depth |-> depth, txn |-> txn]
PyNone == [py |-> "None"]
TypeError == [py |-> "TypeError"]

\* algosdk.encoding.msgpack_encode returns a base64 string
msgpack_encode(obj) == PyStr(1, obj)

\* base64.b64encode takes a bytes-like object and raises TypeError for a str
b64encode(x) == IF x.py = "bytes" THEN PyBytes(x.depth + 1, x.txn) ELSE TypeError

\* base64.b64decode takes bytes or an ASCII str
b64decode(x) == PyBytes(x.depth - 1, x.txn)

\* bytes.decode("utf-8")
decode_utf8(x) == PyStr(x.depth, x.txn)

\* The paymentGroup entry a str is to the facilitator: decodable when it is
\* the base64, once, of msgpack.
PayloadEntry(x) == [x.txn EXCEPT !.ok = (x.depth = 1)]

\* What client.suggested_params() gave; min_fee 0 stands for absent or zero.
SuggestedParams(network, min_fee) ==
    [min_fee |-> min_fee,
     fee |-> IF min_fee = 0 THEN MIN_TXN_FEE ELSE min_fee,
     gh |-> get_genesis_hash(network)]

\* the transactions built without the default for a missing min_fee
BuildTransactions_NoDefault(requirements, address, sp) ==
    LET fee_payer == requirements.feePayer
        min_fee == sp.min_fee
        pooled_fee == min_fee * 2
        fee_payer_txn ==
            [WireTxn(TXN_TYPE_PAYMENT, fee_payer, NoneVal, pooled_fee, sp.gh, NoneVal)
                EXCEPT !.rcv = fee_payer, !.amt = 0]
        asa_transfer(fee) ==
            [WireTxn(TXN_TYPE_ASSET_TRANSFER, address, NoneVal, fee, sp.gh, NoneVal)
                EXCEPT !.xaid = requirements.asset.val,
                       !.arcv = requirements.payTo,
                       !.aamt = requirements.amount.val]
        assign_group_id(txns) == [i \in 1..Len(txns) |-> [txns[i] EXCEPT !.grp = "g1"]]
    IN IF ~requirements.amount.numeric \/ ~requirements.asset.numeric
       THEN [raised |-> ValueError, transactions |-> <<>>, payment_index |-> 0]
       ELSE IF Truthy(fee_payer)
       THEN [raised |-> NoneVal,
             transactions |-> assign_group_id(<<fee_payer_txn, asa_transfer(0)>>),
             payment_index |-> 1]
       ELSE [raised |-> NoneVal,
             transactions |-> <<asa_transfer(sp.fee)>>,
             payment_index |-> 0]

\* create_payment_payload, lines 116-182: the transactions, unsigned, and
\* payment_index; int() of a non-numeric amount or asset raises ValueError
BuildTransactions(requirements, address, sp) ==
    LET fee_payer == requirements.feePayer
        min_fee == IF sp.min_fee = 0 THEN 1000 ELSE sp.min_fee
        pooled_fee == min_fee * 2
        fee_payer_txn ==
            [WireTxn(TXN_TYPE_PAYMENT, fee_payer, NoneVal, pooled_fee, sp.gh, NoneVal)
                EXCEPT !.rcv = fee_payer, !.amt = 0]
        asa_transfer(fee) ==
            [WireTxn(TXN_TYPE_ASSET_TRANSFER, address, NoneVal, fee, sp.gh, NoneVal)
                EXCEPT !.xaid = requirements.asset.val,
                       !.arcv = requirements.payTo,
                       !.aamt = requirements.amount.val]
        assign_group_id(txns) == [i \in 1..Len(txns) |-> [txns[i] EXCEPT !.grp = "g1"]]
    IN IF ~requirements.amount.numeric \/ ~requirements.asset.numeric
       THEN [raised |-> ValueError, transactions |-> <<>>, payment_index |-> 0]
       ELSE IF Truthy(fee_payer)
       THEN [raised |-> NoneVal,
             transactions |-> assign_group_id(<<fee_payer_txn, asa_transfer(0)>>),
             payment_index |-> 1]
       ELSE [raised |-> NoneVal,
             transactions |-> <<asa_transfer(sp.fee)>>,
             payment_index |-> 0]

\* lines 186-190: the 0-based indexes of the client's own transactions
client_indexes(transactions, address) ==
    {i \in 0..(Len(transactions) - 1) : transactions[i + 1].snd = address}

\* AlgorandSigner.sign_transactions: the signed bytes at indexes_to_sign,
\* None elsewhere.  It base64-encodes each entry it signs for msgpack_decode,
\* which raises TypeError for an entry that is not bytes and fails to decode
\* one that is not raw msgpack.
sign_transactions(unsigned_txns, indexes_to_sign) ==
    LET todo == {i \in indexes_to_sign : i < Len(unsigned_txns)}
    IN IF \E i \in todo : b64encode(unsigned_txns[i + 1]).py = "TypeError"
       THEN [raised |-> "TypeError", results |-> <<>>]
       ELSE IF \E i \in todo : b64encode(unsigned_txns[i + 1]).depth # 1
       THEN [raised |-> "Error", results |-> <<>>]
       ELSE [raised |-> NoneVal,
             results |-> [j \in 1..Len(unsigned_txns) |->
                 IF (j - 1) \in todo
                 THEN b64decode(msgpack_encode(
                          [unsigned_txns[j].txn EXCEPT !.sig = "client"]))
                 ELSE PyNone]]

\* create_payment_payload, lines 184-218, from the unsigned bytes on: the
\* client's transactions signed, every entry base64-encoded into the payload
AssemblePayload(unsigned_bytes_list, indexes, payment_index) ==
    LET signed_results == sign_transactions(unsigned_bytes_list, indexes)
        entry(i) == IF signed_results.results[i].py # "None"
                    THEN b64encode(signed_results.results[i])
                    ELSE b64encode(unsigned_bytes_list[i])
        NoPayload == [paymentGroup |-> <<>>, paymentIndex |-> 0]
    IN IF signed_results.raised # NoneVal
       THEN [raised |-> signed_results.raised, payload |-> NoPayload]
       ELSE IF \E i \in 1..Len(unsigned_bytes_list) : entry(i).py = "TypeError"
       THEN [raised |-> "TypeError", payload |-> NoPayload]
       ELSE [raised |-> NoneVal,
             payload |->
                [paymentGroup |-> [i \in 1..Len(unsigned_bytes_list) |->
                                      PayloadEntry(decode_utf8(entry(i)))],
                 paymentIndex |-> payment_index]]

\* ExactAvmScheme.create_payment_payload (client) for the signer at address:
\* what it raises, or the payload it returns.  Line 197 puts
\* msgpack_encode(txn.dictify()) into unsigned_bytes_list.
create_payment_payload(requirements, address, min_fee) ==
    LET built == BuildTransactions(requirements, address,
                                   SuggestedParams(requirements.network, min_fee))
        unsigned_bytes_list ==
            [i \in 1..Len(built.transactions) |-> msgpack_encode(built.transactions[i])]
    IN IF normalize_network(requirements.network) = ValueError
       THEN [raised |-> ValueError,
             payload |-> [paymentGroup |-> <<>>, paymentIndex |-> 0]]
       ELSE IF built.raised # NoneVal
       THEN [raised |-> built.raised,
             payload |-> [paymentGroup |-> <<>>, paymentIndex |-> 0]]
       ELSE AssemblePayload(unsigned_bytes_list,
                            client_indexes(built.transactions, address),
                            built.payment_index)

\* The payload the facilitator is written for, as the docstring of
\* create_payment_payload describes it: the same transactions, the client's
\* own signed, each entry the base64 of the transaction's msgpack bytes.
IntendedPayload(requirements) ==
    LET built == BuildTransactions(requirements, ClientAddr,
                     SuggestedParams(requirements.network, MIN_TXN_FEE))
        raw_bytes_list ==
            [i \in 1..Len(built.transactions) |->
                b64decode(msgpack_encode(built.transactions[i]))]
    IN AssemblePayload(raw_bytes_list,
                       client_indexes(built.transactions, ClientAddr),
                       built.payment_index).payload

\* build_avm_payment_requirements (tests): what the resource server asks
build_avm_payment_requirements(fee_payer) ==
    [scheme |-> SCHEME_EXACT, network |-> ALGORAND_TESTNET_CAIP2,
     asset |-> NumStr(USDC_TESTNET_ASA_ID), amount |-> NumStr(PriceAtomic),
     payTo |-> PayToAddr, feePayer |-> fee_payer]

\* ------------------------------------------------------------- state
VARIABLES
    payload,          \* ExactAvmPayload: paymentGroup, paymentIndex
    accepted,         \* payload.accepted: scheme, network
    requirements,     \* PaymentRequirements, extra.feePayer as feePayer
    edits,            \* places changed since the honest payload was built
    op,               \* the handler called: "none", "verify", "settle"
    pc,               \* where the handler stands
    group_bytes,      \* the handler's local group_bytes
    fee_payer_index,  \* the handler's local fee_payer_index (NoneInt: None)
    txid,             \* settle's local txid
    verifyResult,     \* what verify returned
    settleResult,     \* what settle returned
    calls,            \* the signer calls made so far, in order
    client,           \* the client scheme: its inputs, locals and result
    server,           \* the resource server's scheme and what it is given
    v1,               \* the V1 facilitator: its dict inputs and its response
    utils,            \* arguments and results of the functions of utils.py
    cache,            \* a scheme's _clients dict and the _get_client calls on it
    registry,         \* the scheme registry: its routes and a lookup made on it
    signing           \* a sign_group call on the built-in signer: arguments and outcome

vars == <<payload, accepted, requirements, edits, op, pc, group_bytes,
          fee_payer_index, txid, verifyResult, settleResult, calls, client,
          server, v1, utils, cache, registry, signing>>

\* what the facilitator's and the client's handlers leave alone
others == <<server, v1, utils, cache, registry, signing>>

\* The client scheme before create_payment_payload is called, for the signer
\* at address and a node that reports min_fee.
ClientStart(address, min_fee) ==
    [pc |-> "start", address |-> address, min_fee |-> min_fee,
     transactions |-> <<>>, payment_index |-> 0,
     signer_called |-> FALSE, indexes_to_sign |-> {},
     raised |-> NoneVal,
     result |-> [paymentGroup |-> <<>>, paymentIndex |-> 0]]

\* An `extra` dict with no feePayer key, and one that carries a feePayer.
\* A key that is absent holds Absent.
Absent == "<absent>"
NoExtra == [none |-> TRUE, feePayer |-> Absent]
Extra(fee_payer) == [none |-> FALSE, feePayer |-> fee_payer]

\* The functions of utils.py before they are applied: to the transaction
\* txn, signed by signer or unsigned, and to the network string.
NoInfo == decode_transaction_bytes(WireTxn("unknown", NoneVal, NoneVal, 0, NoneVal, NoneVal))
UtilsStart(txn, signer, network) ==
    [txn |-> txn, signer |-> signer, stage |-> "built",
     encoded |-> PyNone, raised |-> FALSE, info |-> NoInfo,
     network |-> network, normalized |-> "unset", again |-> "unset",
     valid |-> "unset"]
UtilsUnused ==
    UtilsStart(WireTxn(TXN_TYPE_PAYMENT, ClientAddr, NoneVal, 0, NoneVal, NoneVal),
               NoneVal, ALGORAND_TESTNET_CAIP2)

\* A scheme or signer after __init__: its custom Algod URL ("" when none
\* was given), an empty _clients dict, and callers that have not yet called
\* _get_client. A caller's client and result hold NoClient until set.
Callers == 1 .. MaxCallers
NoClient == [network |-> NoneVal, algod_url |-> NoneVal, by |-> 0]
CallerStart ==
    [at |-> "idle", network |-> "", caip2_network |-> "", client |-> NoClient,
     result |-> NoClient]
CacheStart(custom_algod_url) ==
    [custom_algod_url |-> custom_algod_url, clients |-> <<>>,
     callers |-> [c \in Callers |-> CallerStart]]
CacheUnused == CacheStart("")

\* A FacilitatorAlgorandSigner holding keys for accounts, before sign_group
\* is called with group_bytes, fee_payer and indexes_to_sign: the caller's
\* list as it is after the call, what was returned, what was raised.
SigningStart(accounts, group, fee_payer, indexes_to_sign) ==
    [accounts |-> accounts, group_bytes |-> group, fee_payer |-> fee_payer,
     indexes_to_sign |-> indexes_to_sign, called |-> FALSE,
     group_bytes_after |-> group, results |-> <<>>, raised |-> NoneVal]
SigningUnused == SigningStart({}, <<>>, NoneVal, <<>>)

\* An x402Client as constructed: no V2 route, no V1 route, nothing
\* registered, register_exact_avm_client not called, no lookup made.
\* A networks argument is None, a str or a list of str.
NetworksArg(py, items) == [py |-> py, items |-> items]
NetworksUnset == NetworksArg("unset", <<>>)
NotFound == "<not found>"
RegistryUnused ==
    [routes |-> <<>>, v1_routes |-> {}, log |-> <<>>, networks |-> NetworksUnset,
     looked |-> "", found |-> NotFound]

\* The V1 facilitator before a call: the V1 payload and requirements dicts
\* it will be given, and no response yet.
NoV1Response ==
    [status |-> "none", ok |-> FALSE, reason |-> NoneVal, payer |-> "",
     transaction |-> "", network |-> ""]
V1Start(v1_payload, v1_requirements) ==
    [stage |-> "start", op |-> "none",
     payload |-> v1_payload, requirements |-> v1_requirements,
     response |-> NoV1Response]
V1Unused ==
    V1Start([scheme |-> SCHEME_EXACT, network |-> "algorand-testnet",
             payload |-> [paymentGroup |-> <<>>, paymentIndex |-> 0]],
            [scheme |-> SCHEME_EXACT, network |-> "algorand-testnet",
             maxAmountRequired |-> NumStr(0), payTo |-> "", asset |-> NumStr(0),
             feePayer |-> NoneVal])

\* The resource server before it has asked the facilitator anything: the
\* facilitator signer manages the addresses `managed`.
ServerStart(managed) ==
    [managed |-> managed,
     kind |-> [asked |-> FALSE, extra |-> NoExtra],
     money_parsers |-> <<>>,
     price |-> [form |-> "money", numeric |-> TRUE, usd |-> [whole |-> 0, frac |-> 0],
                amount |-> BadStr, asset |-> BadStr],
     network |-> ALGORAND_TESTNET_CAIP2,
     parsed |-> [status |-> "none", amount |-> BadStr, asset |-> BadStr,
                 decimals |-> NoneInt, consulted |-> <<>>],
     req |-> [network |-> ALGORAND_TESTNET_CAIP2,
              extra |-> [none |-> TRUE, decimals |-> NoneInt, feePayer |-> Absent,
                         genesisHash |-> Absent, genesisId |-> Absent]],
     given |-> [none |-> TRUE, decimals |-> NoneInt, feePayer |-> Absent,
                genesisHash |-> Absent, genesisId |-> Absent],
     enhanced |-> FALSE]

NoVerifyResponse ==
    [status |-> "none", is_valid |-> FALSE, invalid_reason |-> NoneVal,
     invalid_message |-> NoneVal, payer |-> ""]
VerifyResponse(is_valid, invalid_reason, invalid_message, payer) ==
    [status |-> "returned", is_valid |-> is_valid,
     invalid_reason |-> invalid_reason, invalid_message |-> invalid_message,
     payer |-> payer]
VerifyRaised ==
    [status |-> "raised", is_valid |-> FALSE, invalid_reason |-> NoneVal,
     invalid_message |-> NoneVal, payer |-> ""]

NoSettleResponse ==
    [status |-> "none", success |-> FALSE, error_reason |-> NoneVal,
     error_message |-> NoneVal, transaction |-> "", network |-> "", payer |-> ""]
SettleResponse(success, error_reason, error_message, transaction, network, payer) ==
    [status |-> "returned", success |-> success, error_reason |-> error_reason,
     error_message |-> error_message,
     transaction |-> transaction, network |-> network, payer |-> payer]
SettleRaised ==
    [status |-> "raised", success |-> FALSE, error_reason |-> NoneVal,
     error_message |-> NoneVal, transaction |-> "", network |-> "", payer |-> ""]

\* str(e) of the exception a signer method raises, and of the one
\* decode_base64_transaction raises
str_e(fn) ==
    CASE fn = "sign_group" -> "sign_group: error"
      [] fn = "simulate_group" -> "simulate_group: error"
      [] fn = "send_group" -> "send_group: error"
      [] fn = "confirm_transaction" -> "confirm_transaction: error"
      [] OTHER -> "Failed to decode transaction"

\* invalid_message of a refusal by a static check (facilitator.py 176, 218):
\* only the decode failure and a payment that is no axfer carry one
StaticMessage(p, reason) ==
    IF reason = ERR_GROUP_DECODE_FAILED THEN str_e("decode_base64_transaction")
    ELSE IF /\ reason = ERR_INVALID_ASSET_ID
            /\ decode_transaction_bytes(p.paymentGroup[p.paymentIndex + 1]).type
                  # TXN_TYPE_ASSET_TRANSFER
    THEN "Payment transaction must be asset transfer (axfer)"
    ELSE NoneVal

Init ==
    /\ \E fee_payer \in {NoneVal, "F"} :
          /\ requirements = build_avm_payment_requirements(fee_payer)
          /\ payload = IntendedPayload(requirements)
    /\ accepted = [scheme |-> requirements.scheme, network |-> requirements.network]
    /\ edits = 0
    /\ op = "none"
    /\ pc = "idle"
    /\ group_bytes = <<>>
    /\ fee_payer_index = NoneInt
    /\ txid = ""
    /\ verifyResult = NoVerifyResponse
    /\ settleResult = NoSettleResponse
    /\ client = ClientStart(ClientAddr, MIN_TXN_FEE)
    /\ server = ServerStart(get_addresses)
    /\ v1 = V1Unused
    /\ utils = UtilsUnused
    /\ cache = CacheUnused
    /\ registry = RegistryUnused
    /\ signing = SigningUnused
    /\ calls = <<>>

\* ------------------------------------------------- the received input
\* What arrives is not under the facilitator's control.  Starting from the
\* honest payload, each action below changes one place of it; the values a
\* place may take are listed here.
TxnFieldValues ==
    [ok |-> BOOLEAN,
     sig |-> {NoneVal, "client"},
     type |-> {TXN_TYPE_PAYMENT, TXN_TYPE_ASSET_TRANSFER, TXN_TYPE_KEY_REGISTRATION},
     snd |-> {ClientAddr, "F", "G"},
     fee |-> {0, MIN_TXN_FEE, MAX_REASONABLE_FEE, MAX_REASONABLE_FEE + 1},
     gh |-> {TESTNET_GENESIS_HASH, MAINNET_GENESIS_HASH},
     grp |-> {NoneVal, "g1", "g2"},
     rekey |-> {NoneVal, OtherAddr},
     rcv |-> {"F", OtherAddr},
     amt |-> {0, 1},
     close |-> {NoneVal, OtherAddr},
     xaid |-> {USDC_TESTNET_ASA_ID, USDC_MAINNET_ASA_ID},
     arcv |-> {PayToAddr, OtherAddr},
     aamt |-> {PriceAtomic - 1, PriceAtomic, PriceAtomic + 1},
     aclose |-> {NoneVal, OtherAddr}]

RequirementsFieldValues ==
    [scheme |-> {SCHEME_EXACT, "upto"},
     network |-> {ALGORAND_TESTNET_CAIP2, ALGORAND_MAINNET_CAIP2,
                  "algorand-testnet", "eip155:8453"},
     asset |-> {NumStr(USDC_TESTNET_ASA_ID), NumStr(USDC_MAINNET_ASA_ID), BadStr},
     amount |-> {NumStr(PriceAtomic), NumStr(2 * PriceAtomic), BadStr},
     payTo |-> {PayToAddr, OtherAddr},
     feePayer |-> {NoneVal, "F", "G", OtherAddr}]

AcceptedFieldValues ==
    [scheme |-> {SCHEME_EXACT, "upto"},
     network |-> {ALGORAND_TESTNET_CAIP2, ALGORAND_MAINNET_CAIP2,
                  "algorand-testnet", "eip155:8453"}]

\* Transactions the sender may add to the group, carrying the honest group's
\* id: an unsigned payment of a third party to itself, and an unsigned asset
\* transfer out of a facilitator account.
ExtraTxns ==
    {[WireTxn(TXN_TYPE_PAYMENT, OtherAddr, NoneVal, 0, TESTNET_GENESIS_HASH, "g1")
        EXCEPT !.rcv = OtherAddr],
     [WireTxn(TXN_TYPE_ASSET_TRANSFER, "F", NoneVal, 0, TESTNET_GENESIS_HASH, "g1")
        EXCEPT !.xaid = USDC_TESTNET_ASA_ID, !.arcv = OtherAddr, !.aamt = 1]}

\* the transaction a group is filled up with
PadTxn ==
    [WireTxn(TXN_TYPE_PAYMENT, OtherAddr, "other", 0, TESTNET_GENESIS_HASH, "g1")
        EXCEPT !.rcv = OtherAddr]

Building == pc = "idle" /\ edits < MaxEdits

Unhandled == UNCHANGED <<op, pc, group_bytes, fee_payer_index, txid,
                         verifyResult, settleResult, calls, client, others>>

\* one field of one transaction of paymentGroup
TamperTxn ==
    /\ Building
    /\ \E i \in 1..Len(payload.paymentGroup) :
       \E f \in DOMAIN TxnFieldValues :
       \E v \in TxnFieldValues[f] :
          /\ v # payload.paymentGroup[i][f]
          /\ payload' = [payload EXCEPT !.paymentGroup[i][f] = v]
    /\ edits' = edits + 1
    /\ UNCHANGED <<accepted, requirements>>
    /\ Unhandled

\* a transaction added at either end of paymentGroup, or the last one dropped
TamperGroup ==
    /\ Building
    /\ \/ \E t \in ExtraTxns :
             payload' = [payload EXCEPT !.paymentGroup = Append(@, t)]
       \/ \E t \in ExtraTxns :
             payload' = [payload EXCEPT !.paymentGroup = <<t>> \o @]
       \/ /\ Len(payload.paymentGroup) > 0
          /\ payload' = [payload EXCEPT
                           !.paymentGroup = SubSeq(@, 1, Len(@) - 1)]
    /\ edits' = edits + 1
    /\ UNCHANGED <<accepted, requirements>>
    /\ Unhandled

\* the client's group filled up in front to the size limit or one past it;
\* one more edit may follow
TamperFill ==
    /\ Building
    /\ edits = 0
    /\ \E n \in {MAX_GROUP_SIZE, MAX_GROUP_SIZE + 1} :
          payload' = [payload EXCEPT !.paymentGroup =
                         [i \in 1..(n - Len(@)) |-> PadTxn] \o @]
    /\ edits' = MaxEdits - 1
    /\ UNCHANGED <<accepted, requirements>>
    /\ Unhandled

\* paymentIndex, inside the group or just outside it
TamperIndex ==
    /\ Building
    /\ \E i \in (0 - 1)..Len(payload.paymentGroup) :
          /\ i # payload.paymentIndex
          /\ payload' = [payload EXCEPT !.paymentIndex = i]
    /\ edits' = edits + 1
    /\ UNCHANGED <<accepted, requirements>>
    /\ Unhandled

\* one field of the requirements the payload is checked against
TamperRequirements ==
    /\ Building
    /\ \E f \in DOMAIN RequirementsFieldValues :
       \E v \in RequirementsFieldValues[f] :
          /\ v # requirements[f]
          /\ requirements' = [requirements EXCEPT ![f] = v]
    /\ edits' = edits + 1
    /\ UNCHANGED <<payload, accepted>>
    /\ Unhandled

\* one field of payload.accepted
TamperAccepted ==
    /\ Building
    /\ \E f \in DOMAIN AcceptedFieldValues :
       \E v \in AcceptedFieldValues[f] :
          /\ v # accepted[f]
          /\ accepted' = [accepted EXCEPT ![f] = v]
    /\ edits' = edits + 1
    /\ UNCHANGED <<payload, requirements>>
    /\ Unhandled

\* ------------------------------------------------------------ verify
Input == UNCHANGED <<payload, accepted, requirements, edits, client, others>>

\* where control goes when verify returns: to the caller of verify, or back
\* into settle at line 337
AfterVerify(o) == IF o = "verify" THEN "done" ELSE "s_check"

\* facilitator.py 294: whether verify signs before it simulates
VerifySigns(fee_payer_str, index) == Truthy(fee_payer_str) /\ index # NoneInt

\* verify, lines 142-291, run for handler o: every static check, up to the
\* first signer call that is not get_addresses
VerifyEnter(o) ==
    LET d == VerifyStatic(payload, accepted, requirements)
    IN /\ op' = o
       /\ IF d.kind = "raise"
          THEN /\ verifyResult' = VerifyRaised
               /\ settleResult' = IF o = "settle" THEN SettleRaised ELSE settleResult
               /\ pc' = "raised"
               /\ UNCHANGED <<group_bytes, fee_payer_index>>
          ELSE IF d.kind = "return"
          THEN /\ verifyResult' = VerifyResponse(FALSE, d.reason,
                                     StaticMessage(payload, d.reason), d.payer)
               /\ pc' = AfterVerify(o)
               /\ UNCHANGED <<group_bytes, fee_payer_index, settleResult>>
          ELSE /\ group_bytes' = payload.paymentGroup
               /\ fee_payer_index' = d.fee_payer_index
               /\ pc' = IF VerifySigns(requirements.feePayer, d.fee_payer_index)
                        THEN "v_sign" ELSE "v_simulate"
               /\ UNCHANGED <<verifyResult, settleResult>>
       /\ UNCHANGED <<txid, calls>>
       /\ Input

\* a call of ExactAvmScheme.verify
verify ==
    /\ pc = "idle"
    /\ VerifyEnter("verify")

\* verify, lines 295-297 (and 302-308 when the signer raises)
verify_sign_group ==
    /\ pc = "v_sign"
    /\ LET signed == sign_group(group_bytes, requirements.feePayer, {fee_payer_index})
       IN \E raised \in {~SignerHasKey(requirements.feePayer), TRUE} :
             /\ calls' = Append(calls,
                    Call("sign_group", "verify", requirements.feePayer,
                         {fee_payer_index}, group_bytes,
                         IF raised THEN <<>> ELSE signed, raised))
             /\ IF raised
                THEN /\ verifyResult' = VerifyResponse(FALSE, ERR_SIMULATION_FAILED,
                                            str_e("sign_group"), VerifyPayer(payload))
                     /\ pc' = AfterVerify(op)
                     /\ UNCHANGED group_bytes
                ELSE /\ group_bytes' = signed
                     /\ pc' = "v_simulate"
                     /\ UNCHANGED verifyResult
    /\ UNCHANGED <<op, fee_payer_index, txid, settleResult>>
    /\ Input

\* verify submitting the group where it is to simulate it
verify_simulate_group_Sends ==
    /\ pc = "v_simulate"
    /\ \E raised \in BOOLEAN :
          /\ calls' = Append(calls,
                 Call("send_group", "verify", NoneVal, {}, group_bytes, <<>>, raised))
          /\ verifyResult' =
                IF raised
                THEN VerifyResponse(FALSE, ERR_SIMULATION_FAILED,
                                    str_e("simulate_group"), VerifyPayer(payload))
                ELSE VerifyResponse(TRUE, NoneVal, NoneVal, VerifyPayer(payload))
    /\ pc' = AfterVerify(op)
    /\ UNCHANGED <<op, group_bytes, fee_payer_index, txid, settleResult>>
    /\ Input

\* verify, lines 300-310: the chain accepts the simulated group or not
verify_simulate_group ==
    /\ pc = "v_simulate"
    /\ \E raised \in BOOLEAN :
          /\ calls' = Append(calls,
                 Call("simulate_group", "verify", NoneVal, {}, group_bytes, <<>>, raised))
          /\ verifyResult' =
                IF raised
                THEN VerifyResponse(FALSE, ERR_SIMULATION_FAILED,
                                    str_e("simulate_group"), VerifyPayer(payload))
                ELSE VerifyResponse(TRUE, NoneVal, NoneVal, VerifyPayer(payload))
    /\ pc' = AfterVerify(op)
    /\ UNCHANGED <<op, group_bytes, fee_payer_index, txid, settleResult>>
    /\ Input

\* ------------------------------------------------------------ settle
\* settle going on whatever its verify returned
SettleRefuses_Never(verify_result) == FALSE

\* facilitator.py 337: settle refuses what its verify did not accept
SettleRefuses(verify_result) == ~verify_result.is_valid

\* facilitator.py 369: whether settle signs before it sends
SettleSigns(index) == index # NoneInt

\* the except clause reporting no transaction id
SettleFailed_NoTxid(transaction, e) ==
    SettleResponse(FALSE, ERR_TRANSACTION_FAILED, e, "", accepted.network,
                   verifyResult.payer)

\* facilitator.py 387-395
SettleFailed(transaction, e) ==
    SettleResponse(FALSE, ERR_TRANSACTION_FAILED, e, transaction, accepted.network,
                   verifyResult.payer)

\* settle's search taking the last transaction the fee payer sends
SettleFeePayerIndex_Last(decoded_txns, fee_payer_str) ==
    LET hits == {i \in 1..Len(decoded_txns) : decoded_txns[i].sender = fee_payer_str}
    IN IF hits = {} THEN NoneInt
       ELSE (CHOOSE i \in hits : \A j \in hits : i >= j) - 1

\* facilitator.py 363-367: settle's own search for the fee payer's
\* transaction, the first whose sender is the fee payer
SettleFeePayerIndex(decoded_txns, fee_payer_str) ==
    LET hits == {i \in 1..Len(decoded_txns) : decoded_txns[i].sender = fee_payer_str}
    IN IF hits = {} THEN NoneInt
       ELSE (CHOOSE i \in hits : \A j \in hits : i <= j) - 1

\* a call of ExactAvmScheme.settle: lines 331-336, into its verify
SettleEnter ==
    IF normalize_network(accepted.network) = ValueError
    THEN /\ op' = "settle"
         /\ pc' = "raised"
         /\ settleResult' = SettleRaised
         /\ UNCHANGED <<group_bytes, fee_payer_index, txid, verifyResult, calls>>
         /\ Input
    ELSE VerifyEnter("settle")

settle ==
    /\ pc = "idle"
    /\ SettleEnter

\* settle, lines 337-372: refuse, or prepare the group and find the fee payer
settle_check ==
    /\ pc = "s_check"
    /\ IF SettleRefuses(verifyResult)
       THEN /\ settleResult' = SettleResponse(FALSE, verifyResult.invalid_reason,
                                  verifyResult.invalid_message, "",
                                  accepted.network, verifyResult.payer)
            /\ pc' = "done"
            /\ UNCHANGED <<group_bytes, fee_payer_index, txid>>
       ELSE /\ txid' = ""
            /\ group_bytes' = payload.paymentGroup
            /\ fee_payer_index' =
                  IF Truthy(requirements.feePayer)
                  THEN SettleFeePayerIndex(DecodeGroup(payload.paymentGroup),
                                           requirements.feePayer)
                  ELSE NoneInt
            /\ pc' = IF Truthy(requirements.feePayer) /\ SettleSigns(fee_payer_index')
                     THEN "s_sign" ELSE "s_send"
            /\ UNCHANGED settleResult
    /\ UNCHANGED <<op, verifyResult, calls>>
    /\ Input

\* settle, lines 370-372
settle_sign_group ==
    /\ pc = "s_sign"
    /\ LET signed == sign_group(group_bytes, requirements.feePayer, {fee_payer_index})
       IN \E raised \in {~SignerHasKey(requirements.feePayer), TRUE} :
             /\ calls' = Append(calls,
                    Call("sign_group", "settle", requirements.feePayer,
                         {fee_payer_index}, group_bytes,
                         IF raised THEN <<>> ELSE signed, raised))
             /\ IF raised
                THEN /\ settleResult' = SettleFailed(txid, str_e("sign_group"))
                     /\ pc' = "done"
                     /\ UNCHANGED group_bytes
                ELSE /\ group_bytes' = signed
                     /\ pc' = "s_send"
                     /\ UNCHANGED settleResult
    /\ UNCHANGED <<op, fee_payer_index, txid, verifyResult>>
    /\ Input

\* settle sending the group once more after send_group raised
settle_send_group_Retry ==
    /\ pc = "s_send"
    /\ \E signer \in Signers, id \in TxIds :
       \E raised \in {SendMustRaise(signer, group_bytes), TRUE} :
          /\ calls' = Append(calls,
                 SendCall(signer, group_bytes, IF raised THEN "" ELSE id, raised))
          /\ IF raised
             THEN IF \E k \in 1..Len(calls) : calls[k].fn = "send_group"
                  THEN /\ settleResult' = SettleFailed(txid, str_e("send_group"))
                       /\ pc' = "done"
                       /\ UNCHANGED txid
                  ELSE UNCHANGED <<settleResult, pc, txid>>
             ELSE /\ txid' = id
                  /\ pc' = "s_confirm"
                  /\ UNCHANGED settleResult
    /\ UNCHANGED <<op, group_bytes, fee_payer_index, verifyResult>>
    /\ Input

\* settle, line 375: the network takes the group and names it, or refuses
settle_send_group ==
    /\ pc = "s_send"
    /\ \E signer \in Signers, id \in TxIds :
       \E raised \in {SendMustRaise(signer, group_bytes), TRUE} :
          /\ calls' = Append(calls,
                 SendCall(signer, group_bytes, IF raised THEN "" ELSE id, raised))
          /\ IF raised
             THEN /\ settleResult' = SettleFailed(txid, str_e("send_group"))
                  /\ pc' = "done"
                  /\ UNCHANGED txid
             ELSE /\ txid' = id
                  /\ pc' = "s_confirm"
                  /\ UNCHANGED settleResult
    /\ UNCHANGED <<op, group_bytes, fee_payer_index, verifyResult>>
    /\ Input

\* settle, lines 378-385
settle_confirm_transaction ==
    /\ pc = "s_confirm"
    /\ \E raised \in BOOLEAN :
          /\ calls' = Append(calls,
                 ConfirmCall(txid, raised))
          /\ settleResult' =
                IF raised
                THEN SettleFailed(txid, str_e("confirm_transaction"))
                ELSE SettleResponse(TRUE, NoneVal, NoneVal, txid, accepted.network,
                                    verifyResult.payer)
    /\ pc' = "done"
    /\ UNCHANGED <<op, group_bytes, fee_payer_index, txid, verifyResult>>
    /\ Input

Next ==
    \/ TamperTxn
    \/ TamperGroup
    \/ TamperFill
    \/ TamperIndex
    \/ TamperRequirements
    \/ TamperAccepted
    \/ verify
    \/ verify_sign_group
    \/ verify_simulate_group
    \/ settle
    \/ settle_check
    \/ settle_sign_group
    \/ settle_send_group
    \/ settle_confirm_transaction

Spec == Init /\ [][Next]_vars

\* Every signer call returns or raises, and the handler goes on after it:
\* a step of a handler that is under way is taken in the end.
HandlerStep ==
    \/ verify_sign_group
    \/ verify_simulate_group
    \/ settle_check
    \/ settle_sign_group
    \/ settle_send_group
    \/ settle_confirm_transaction

FairSpec == Spec /\ WF_vars(HandlerStep)

\* --------------------------------------------------- the client scheme
\* The requirements a resource server may hand the client, and the min_fee
\* the client's node may report (0: absent or zero).
ClientRequirements ==
    [scheme : {SCHEME_EXACT},
     network : {ALGORAND_TESTNET_CAIP2, ALGORAND_MAINNET_CAIP2,
                "algorand-testnet", "eip155:8453"},
     asset : {NumStr(USDC_TESTNET_ASA_ID), NumStr(USDC_MAINNET_ASA_ID), BadStr},
     amount : {NumStr(PriceAtomic), NumStr(2 * PriceAtomic), BadStr},
     payTo : {PayToAddr, OtherAddr},
     feePayer : {NoneVal, "", "F", ClientAddr}]

MinFees == {0, MIN_TXN_FEE, 2 * MIN_TXN_FEE, MAX_REASONABLE_FEE \div 2,
            MAX_REASONABLE_FEE \div 2 + 1}

ClientInit ==
    /\ requirements \in ClientRequirements
    /\ \E min_fee \in MinFees : client = ClientStart(ClientAddr, min_fee)
    /\ payload = [paymentGroup |-> <<>>, paymentIndex |-> 0]
    /\ accepted = [scheme |-> requirements.scheme, network |-> requirements.network]
    /\ edits = 0
    /\ op = "none"
    /\ pc = "idle"
    /\ group_bytes = <<>>
    /\ fee_payer_index = NoneInt
    /\ txid = ""
    /\ verifyResult = NoVerifyResponse
    /\ settleResult = NoSettleResponse
    /\ calls = <<>>
    /\ server = ServerStart(get_addresses)
    /\ v1 = V1Unused
    /\ utils = UtilsUnused
    /\ cache = CacheUnused
    /\ registry = RegistryUnused
    /\ signing = SigningUnused

\* a call of the client's ExactAvmScheme.create_payment_payload
client_create_payment_payload ==
    /\ client.pc = "start"
    /\ LET supported == normalize_network(requirements.network) # ValueError
           built == IF supported
                    THEN BuildTransactions(requirements, client.address,
                             SuggestedParams(requirements.network, client.min_fee))
                    ELSE [raised |-> ValueError, transactions |-> <<>>,
                          payment_index |-> 0]
           out == create_payment_payload(requirements, client.address, client.min_fee)
       IN client' = [client EXCEPT
              !.pc = "done",
              !.transactions = built.transactions,
              !.payment_index = built.payment_index,
              !.signer_called = (built.raised = NoneVal),
              !.indexes_to_sign = client_indexes(built.transactions, client.address),
              !.raised = out.raised,
              !.result = out.payload]
    /\ UNCHANGED <<payload, accepted, requirements, edits, op, pc, group_bytes,
                   fee_payer_index, txid, verifyResult, settleResult, calls,
                   others>>

ClientNext == client_create_payment_payload

ClientSpec == ClientInit /\ [][ClientNext]_vars

\* ------------------------------------------------------------ server
\* The resource server's side: it asks the facilitator for its supported
\* kind (get_extra), parses the configured price and enhances the payment
\* requirements it will publish.

\* the variables of the facilitator's and the client's handlers
handlers == <<payload, accepted, requirements, edits, op, pc, group_bytes,
              fee_payer_index, txid, verifyResult, settleResult, calls, client>>

\* the handlers before any call, as Init leaves them
HandlersIdle ==
    /\ requirements = build_avm_payment_requirements("F")
    /\ payload = IntendedPayload(requirements)
    /\ accepted = [scheme |-> requirements.scheme, network |-> requirements.network]
    /\ edits = 0
    /\ op = "none"
    /\ pc = "idle"
    /\ group_bytes = <<>>
    /\ fee_payer_index = NoneInt
    /\ txid = ""
    /\ verifyResult = NoVerifyResponse
    /\ settleResult = NoSettleResponse
    /\ client = ClientStart(ClientAddr, MIN_TXN_FEE)
    /\ calls = <<>>

\* get_extra always advertising the first address the facilitator was built with
get_extra_Fixed(addresses) ==
    IF addresses = {} THEN {NoExtra} ELSE {Extra("F")}

\* facilitator.py 74-94: the values get_extra can return for a signer that
\* manages `addresses`; random.choice picks any one of them
get_extra(addresses) ==
    IF addresses = {} THEN {NoExtra}
    ELSE {Extra(a) : a \in addresses}

\* ---- prices
\* A decimal USD amount: its whole dollars, and its fraction as a count of
\* 10^-MoneyDigits dollars.
Usd(whole, micro, sub) ==
    [whole |-> whole,
     frac |-> micro * 10^(MoneyDigits - DEFAULT_DECIMALS) + sub]
\* what stands for the exception of a function that returns an amount
NoUsd == [whole |-> NoneInt, frac |-> 0]

\* a string that is a key's missing value (None, or no such key), and ""
AbsentStr == [numeric |-> FALSE, val |-> 0 - 1]
EmptyStr == [numeric |-> FALSE, val |-> 0 - 2]

\* utils.py 120-136; NoneInt stands for the ValueError it raises
get_usdc_asa_id(network) ==
    LET caip2 == normalize_network(network)
    IN IF caip2 = ALGORAND_MAINNET_CAIP2 THEN USDC_MAINNET_ASA_ID
       ELSE IF caip2 = ALGORAND_TESTNET_CAIP2 THEN USDC_TESTNET_ASA_ID
       ELSE NoneInt

\* utils.py 167-180: "$", "," and blanks are dropped and the rest is read as
\* a decimal; a string that is no decimal raises.  The amounts of the model
\* have fewer than 15 significant digits, which a float keeps.
parse_money_to_decimal(money) ==
    IF money.numeric THEN money.usd ELSE NoUsd

\* utils.py 183-193: int(Decimal(str(amount)) * Decimal(10**decimals))
to_atomic_amount(amount, decimals) ==
    amount.whole * 10^decimals
    + (IF decimals <= MoneyDigits
       THEN amount.frac \div 10^(MoneyDigits - decimals)
       ELSE amount.frac * 10^(decimals - MoneyDigits))

\* what parse_price hands back: an AssetAmount, or the exception it raised;
\* consulted lists the registered parsers it called, by position
\* decimals is extra["decimals"], NoneInt when extra has no such key
AssetAmount(amount, asset, decimals, consulted) ==
    [status |-> "returned", amount |-> amount, asset |-> asset,
     decimals |-> decimals, consulted |-> consulted]
PriceRaised(consulted) ==
    [status |-> "raised", amount |-> BadStr, asset |-> BadStr,
     decimals |-> NoneInt, consulted |-> consulted]

\* server.py 101-118
default_money_conversion(amount, network, consulted) ==
    IF get_usdc_asa_id(network) = NoneInt THEN PriceRaised(consulted)
    ELSE AssetAmount(NumStr(to_atomic_amount(amount, DEFAULT_DECIMALS)),
                     NumStr(get_usdc_asa_id(network)), DEFAULT_DECIMALS, consulted)

\* A registered money parser (the tests' large_amount_parser): it answers
\* amounts above its threshold with its own asset and None otherwise.
\* "always" answers every amount, "never" none.
ParserAnswers(parser, amount) ==
    CASE parser.kind = "always" -> TRUE
      [] parser.kind = "large" ->
            amount.whole > 100 \/ (amount.whole = 100 /\ amount.frac > 0)
      [] OTHER -> FALSE
ParserAsset(parser) == NumStr(99999990 + parser.id)
ParserResult(parser, amount) ==
    [amount |-> NumStr(to_atomic_amount(amount, DEFAULT_DECIMALS)),
     asset |-> ParserAsset(parser)]

\* the chain consulting every parser and keeping the last answer
TryParsers_LastWins(money_parsers, i, amount, network, consulted) ==
    LET all == [k \in 1..Len(money_parsers) |-> k]
        answering == {k \in i..Len(money_parsers) :
                         ParserAnswers(money_parsers[k], amount)}
        last == CHOOSE k \in answering : \A j \in answering : j <= k
    IN IF answering = {}
       THEN default_money_conversion(amount, network, all)
       ELSE AssetAmount(ParserResult(money_parsers[last], amount).amount,
                        ParserResult(money_parsers[last], amount).asset,
                        NoneInt, all)

\* server.py 93-99: the chain from position i on
RECURSIVE TryParsers(_, _, _, _, _)
TryParsers(money_parsers, i, amount, network, consulted) ==
    IF i > Len(money_parsers)
    THEN default_money_conversion(amount, network, consulted)
    ELSE IF ParserAnswers(money_parsers[i], amount)
         THEN AssetAmount(ParserResult(money_parsers[i], amount).amount,
                          ParserResult(money_parsers[i], amount).asset,
                          NoneInt, Append(consulted, i))
         ELSE TryParsers(money_parsers, i + 1, amount, network, Append(consulted, i))

\* parse_price giving every AssetAmount the network's USDC as its asset
parse_price_DefaultAsset(money_parsers, price, network) ==
    IF price.form \in {"dict", "object"}
    THEN IF get_usdc_asa_id(network) = NoneInt THEN PriceRaised(<<>>)
         ELSE AssetAmount(price.amount, NumStr(get_usdc_asa_id(network)),
                          NoneInt, <<>>)
    ELSE IF parse_money_to_decimal(price) = NoUsd THEN PriceRaised(<<>>)
    ELSE TryParsers(money_parsers, 1, parse_money_to_decimal(price), network, <<>>)

\* server.py 59-99
parse_price(money_parsers, price, network) ==
    IF price.form = "dict"
    THEN IF get_usdc_asa_id(network) = NoneInt THEN PriceRaised(<<>>)
         ELSE AssetAmount(price.amount,
                          IF price.asset = AbsentStr
                          THEN NumStr(get_usdc_asa_id(network)) ELSE price.asset,
                          DEFAULT_DECIMALS, <<>>)
    ELSE IF price.form = "object"
    THEN IF price.asset \in {AbsentStr, EmptyStr}
         THEN IF get_usdc_asa_id(network) = NoneInt THEN PriceRaised(<<>>)
              ELSE AssetAmount(price.amount, NumStr(get_usdc_asa_id(network)),
                               NoneInt, <<>>)
         ELSE AssetAmount(price.amount, price.asset, NoneInt, <<>>)
    ELSE IF parse_money_to_decimal(price) = NoUsd THEN PriceRaised(<<>>)
    ELSE TryParsers(money_parsers, 1, parse_money_to_decimal(price), network, <<>>)

\* ---- requirements
\* constants.py 150-175: genesis_id of a network; ValueError as get_network_config
genesis_id(network) ==
    LET caip2 == normalize_network(network)
    IN IF caip2 = ALGORAND_MAINNET_CAIP2 THEN "mainnet-v1.0"
       ELSE IF caip2 = ALGORAND_TESTNET_CAIP2 THEN "testnet-v1.0"
       ELSE ValueError

\* requirements.extra: None, or a dict whose missing keys hold Absent
\* (NoneInt for decimals)
ReqExtra(decimals, fee_payer, genesis_hash, gid) ==
    [none |-> FALSE, decimals |-> decimals, feePayer |-> fee_payer,
     genesisHash |-> genesis_hash, genesisId |-> gid]
ReqExtraNone ==
    [none |-> TRUE, decimals |-> NoneInt, feePayer |-> Absent,
     genesisHash |-> Absent, genesisId |-> Absent]

\* enhance_payment_requirements overwriting the decimals it finds
enhance_payment_requirements_ResetDecimals(req, supported_kind_extra) ==
    [req EXCEPT !.extra =
        ReqExtra(DEFAULT_DECIMALS,
                 IF ~supported_kind_extra.none /\ supported_kind_extra.feePayer # Absent
                 THEN supported_kind_extra.feePayer ELSE @.feePayer,
                 IF get_genesis_hash(req.network) # ValueError /\ @.genesisHash = Absent
                 THEN get_genesis_hash(req.network) ELSE @.genesisHash,
                 IF genesis_id(req.network) # ValueError /\ @.genesisId = Absent
                 THEN genesis_id(req.network) ELSE @.genesisId)]

\* server.py 120-167
enhance_payment_requirements(req, supported_kind_extra) ==
    [req EXCEPT !.extra =
        ReqExtra(IF @.decimals = NoneInt THEN DEFAULT_DECIMALS ELSE @.decimals,
                 IF ~supported_kind_extra.none /\ supported_kind_extra.feePayer # Absent
                 THEN supported_kind_extra.feePayer ELSE @.feePayer,
                 IF get_genesis_hash(req.network) # ValueError /\ @.genesisHash = Absent
                 THEN get_genesis_hash(req.network) ELSE @.genesisHash,
                 IF genesis_id(req.network) # ValueError /\ @.genesisId = Absent
                 THEN genesis_id(req.network) ELSE @.genesisId)]

\* ---- what the server is configured with
\* the sets of addresses a facilitator signer may manage
ManagedSets == SUBSET {"F", "G"}

ServerNetworks ==
    {ALGORAND_TESTNET_CAIP2, ALGORAND_MAINNET_CAIP2, "algorand-testnet", "eip155:8453"}

\* Money: "$1.00", 2.5, "$0.001", 150 and amounts with a seventh digit
MoneyAmounts ==
    {Usd(w, m, x) : w \in {0, 1, 150}, m \in {0, 1000, 500000}, x \in {0, 5, 9}}
Money(usd) == [form |-> "money", numeric |-> TRUE, usd |-> usd,
               amount |-> BadStr, asset |-> BadStr]
BadMoney == [form |-> "money", numeric |-> FALSE, usd |-> Usd(0, 0, 0),
             amount |-> BadStr, asset |-> BadStr]
AssetAmountPrice(form, amount, asset) ==
    [form |-> form, numeric |-> TRUE, usd |-> Usd(0, 0, 0), amount |-> amount, asset |-> asset]

Prices ==
    {Money(usd) : usd \in MoneyAmounts} \cup {BadMoney}
    \cup {AssetAmountPrice(form, NumStr(5000000), asset) :
              form \in {"dict", "object"},
              asset \in {AbsentStr, EmptyStr, NumStr(12345678)}}

GivenExtras ==
    {ReqExtraNone,
     ReqExtra(NoneInt, Absent, Absent, Absent),
     ReqExtra(2, Absent, Absent, Absent),
     ReqExtra(NoneInt, "X", Absent, Absent),
     ReqExtra(DEFAULT_DECIMALS, "X", MAINNET_GENESIS_HASH, "mainnet-v1.0"),
     ReqExtra(NoneInt, Absent, TESTNET_GENESIS_HASH, Absent)}

ParserKinds == {"always", "large", "never"}

ServerInit ==
    /\ HandlersIdle
    /\ \E managed \in ManagedSets, price \in Prices, network \in ServerNetworks,
          given \in GivenExtras :
          server = [ServerStart(managed) EXCEPT
                       !.price = price,
                       !.network = network,
                       !.req = [network |-> network, extra |-> given],
                       !.given = given]
    /\ v1 = V1Unused
    /\ utils = UtilsUnused
    /\ cache = CacheUnused
    /\ registry = RegistryUnused
    /\ signing = SigningUnused

\* the facilitator answers the server's question for its supported kind
server_get_extra ==
    /\ ~server.kind.asked
    /\ \E extra \in get_extra(server.managed) :
          server' = [server EXCEPT !.kind = [asked |-> TRUE, extra |-> extra]]
    /\ UNCHANGED <<handlers, v1, utils, cache, registry, signing>>

\* server.py 44-57: registration appends; the parser gets its position as id
register_money_parser ==
    /\ server.parsed.status = "none"
    /\ Len(server.money_parsers) < MaxParsers
    /\ \E kind \in ParserKinds :
          server' = [server EXCEPT !.money_parsers =
                        Append(@, [id |-> Len(@) + 1, kind |-> kind])]
    /\ UNCHANGED <<handlers, v1, utils, cache, registry, signing>>

\* a call of the server scheme's parse_price
server_parse_price ==
    /\ server.parsed.status = "none"
    /\ server' = [server EXCEPT !.parsed =
                     parse_price(server.money_parsers, server.price, server.network)]
    /\ UNCHANGED <<handlers, v1, utils, cache, registry, signing>>

\* a call of enhance_payment_requirements with the facilitator's kind
server_enhance_payment_requirements ==
    /\ server.kind.asked
    /\ ~server.enhanced
    /\ server' = [server EXCEPT
                     !.req = enhance_payment_requirements(@, server.kind.extra),
                     !.enhanced = TRUE]
    /\ UNCHANGED <<handlers, v1, utils, cache, registry, signing>>

ServerNext ==
    \/ server_get_extra
    \/ register_money_parser
    \/ server_parse_price
    \/ server_enhance_payment_requirements

ServerSpec == ServerInit /\ [][ServerNext]_vars

\* ---------------------------------------------------------------- V1
\* The V1 facilitator wraps the V2 scheme: it builds V2 values from the V1
\* dicts, calls the V2 handler and flattens its response.

\* constants.py 67-70
V2_TO_V1_NETWORK_MAP(n) ==
    IF n = ALGORAND_TESTNET_CAIP2 THEN "algorand-testnet" ELSE "algorand-mainnet"

\* V1_TO_V2_NETWORK_MAP.get(v1_network, v1_network)
V1ToV2Network(v1_network) ==
    IF v1_network \in V1_NAMES THEN V1_TO_V2_NETWORK_MAP(v1_network) ELSE v1_network

\* v1/facilitator.py 178-180
V2ToV1Network(network) ==
    IF network \in NETWORK_CONFIGS THEN V2_TO_V1_NETWORK_MAP(network) ELSE network

\* dict.get(key, default) for a key that holds a string
GetStr(value, default) == IF value = Absent THEN default ELSE value

\* v1/facilitator.py 72-84 (140-149): the V2 requirements
V2Requirements(payment_requirements) ==
    [scheme |-> GetStr(payment_requirements.scheme, SCHEME_EXACT),
     network |-> V1ToV2Network(payment_requirements.network),
     asset |-> payment_requirements.asset,
     amount |-> payment_requirements.maxAmountRequired,
     payTo |-> payment_requirements.payTo,
     feePayer |-> payment_requirements.feePayer]

\* the V2 accepted requirements taking their network from the payload
V2Accepted_OwnNetwork(v1_payload, payment_requirements) ==
    [scheme |-> GetStr(v1_payload.scheme, SCHEME_EXACT),
     network |-> V1ToV2Network(v1_payload.network)]

\* v1/facilitator.py 86-95 (151-160): the V2 accepted requirements; their
\* network is v2_network, which line 72-73 took from payment_requirements
V2Accepted(v1_payload, payment_requirements) ==
    [scheme |-> GetStr(v1_payload.scheme, SCHEME_EXACT),
     network |-> V1ToV2Network(payment_requirements.network)]

\* v1/facilitator.py 113-117
V1VerifyResponse(result) ==
    IF result.status = "raised"
    THEN [NoV1Response EXCEPT !.status = "raised"]
    ELSE [status |-> "returned", ok |-> result.is_valid,
          reason |-> result.invalid_reason, payer |-> result.payer,
          transaction |-> "", network |-> ""]

\* v1/facilitator.py 177-189
V1SettleResponse(result) ==
    IF result.status = "raised"
    THEN [NoV1Response EXCEPT !.status = "raised"]
    ELSE [status |-> "returned", ok |-> result.success,
          reason |-> result.error_reason, payer |-> result.payer,
          transaction |-> result.transaction,
          network |-> V2ToV1Network(result.network)]

\* the V1 dicts a facilitator may be given
V1RequirementsDicts ==
    [scheme : {SCHEME_EXACT, "upto", Absent},
     network : {"algorand-testnet", "algorand-mainnet", "algorand",
                ALGORAND_TESTNET_CAIP2, "base-sepolia"},
     maxAmountRequired : {NumStr(PriceAtomic), NumStr(2 * PriceAtomic)},
     payTo : {PayToAddr, OtherAddr},
     asset : {NumStr(USDC_TESTNET_ASA_ID)},
     feePayer : {NoneVal, "F"}]

V1PayloadDicts ==
    [scheme : {SCHEME_EXACT, "upto", Absent},
     network : {"algorand-testnet", "algorand-mainnet"},
     payload : {IntendedPayload(build_avm_payment_requirements(fee_payer)) :
                   fee_payer \in {NoneVal, "F"}}]

V1Init ==
    /\ HandlersIdle
    /\ server = ServerStart(get_addresses)
    /\ \E v1_payload \in V1PayloadDicts, payment_requirements \in V1RequirementsDicts :
          v1 = V1Start(v1_payload, payment_requirements)
    /\ utils = UtilsUnused
    /\ cache = CacheUnused
    /\ registry = RegistryUnused
    /\ signing = SigningUnused

\* ExactAvmSchemeV1.verify / settle up to the call of the V2 handler: lines
\* 72-107 (137-172)
V1Translate(o) ==
    /\ requirements' = V2Requirements(v1.requirements)
    /\ accepted' = V2Accepted(v1.payload, v1.requirements)
    /\ payload' = v1.payload.payload
    /\ v1' = [v1 EXCEPT !.stage = "called", !.op = o]
    /\ pc' = "v1_call"
    /\ UNCHANGED <<edits, op, group_bytes, fee_payer_index, txid, verifyResult,
                   settleResult, calls, client, server, utils, cache, registry, signing>>

\* a call of ExactAvmSchemeV1.verify
v1_verify ==
    /\ pc = "idle"
    /\ v1.stage = "start"
    /\ V1Translate("verify")

\* a call of ExactAvmSchemeV1.settle
v1_settle ==
    /\ pc = "idle"
    /\ v1.stage = "start"
    /\ V1Translate("settle")

\* line 110: self._v2_scheme.verify(v2_payload, v2_requirements)
v1_call_verify ==
    /\ pc = "v1_call"
    /\ v1.op = "verify"
    /\ VerifyEnter("verify")

\* line 175: self._v2_scheme.settle(v2_payload, v2_requirements)
v1_call_settle ==
    /\ pc = "v1_call"
    /\ v1.op = "settle"
    /\ SettleEnter

\* lines 112-117 (177-189): the V2 handler is back, or its exception goes on
v1_return ==
    /\ pc \in {"done", "raised"}
    /\ v1.stage = "called"
    /\ v1' = [v1 EXCEPT
              !.stage = "returned",
              !.response = IF v1.op = "verify" THEN V1VerifyResponse(verifyResult)
                           ELSE V1SettleResponse(settleResult)]
    /\ UNCHANGED <<handlers, server, utils, cache, registry, signing>>

V1Next ==
    \/ v1_verify
    \/ v1_settle
    \/ v1_call_verify
    \/ v1_call_settle
    \/ verify_sign_group
    \/ verify_simulate_group
    \/ settle_check
    \/ settle_sign_group
    \/ settle_send_group
    \/ settle_confirm_transaction
    \/ v1_return

V1Spec == V1Init /\ [][V1Next]_vars

\* ------------------------------------------------------------- utils
\* The functions of utils.py applied to arguments of their own: a
\* transaction encoded and decoded again, a network string normalized.

\* An algosdk transaction object (PaymentTxn or AssetTransferTxn as the
\* client builds them): index is the asset of an axfer, 0 for a payment.
Transaction(type, sender, fee, first, gh, group, rekey_to, receiver, amt, close_to, index) ==
    [type |-> type, sender |-> sender, fee |-> fee, first |-> first,
     last |-> first + 1000, gh |-> gh, group |-> group, rekey_to |-> rekey_to,
     receiver |-> receiver, amt |-> amt, close_to |-> close_to, index |-> index]

\* the msgpack dict of a transaction object: its fields under their wire
\* keys, those of the other type left out
dictify(txn) ==
    [WireTxn(txn.type, txn.sender, NoneVal, txn.fee, txn.gh, txn.group) EXCEPT
        !.fv = txn.first,
        !.lv = txn.last,
        !.rekey = txn.rekey_to,
        !.rcv = IF txn.type = TXN_TYPE_PAYMENT THEN txn.receiver ELSE NoneVal,
        !.amt = IF txn.type = TXN_TYPE_PAYMENT THEN txn.amt ELSE 0,
        !.close = IF txn.type = TXN_TYPE_PAYMENT THEN txn.close_to ELSE NoneVal,
        !.xaid = IF txn.type = TXN_TYPE_ASSET_TRANSFER THEN txn.index ELSE 0,
        !.arcv = IF txn.type = TXN_TYPE_ASSET_TRANSFER THEN txn.receiver ELSE NoneVal,
        !.aamt = IF txn.type = TXN_TYPE_ASSET_TRANSFER THEN txn.amt ELSE 0,
        !.aclose = IF txn.type = TXN_TYPE_ASSET_TRANSFER THEN txn.close_to ELSE NoneVal]

\* txn.sign(key): the dict wrapped as {"sig": ..., "txn": ...}
SignedBy(wire, signer) == [wire EXCEPT !.sig = signer]

\* algosdk.encoding.msgpack_decode takes the base64 string of msgpack bytes
msgpack_decodes(x) == x.py = "str" /\ x.depth = 1 /\ x.txn.ok

\* utils.py 317-334 with 223-228: base64-decode the entry, encode the bytes
\* again for msgpack_decode, and read the fields
decode_base64_transaction(b64_txn) ==
    LET txn_bytes == b64decode(b64_txn)
        b64_encoded == decode_utf8(b64encode(txn_bytes))
    IN IF b64_txn.py = "None" \/ ~msgpack_decodes(b64_encoded)
       THEN [raised |-> TRUE, info |-> NoInfo]
       ELSE [raised |-> FALSE, info |-> decode_transaction_bytes(b64_encoded.txn)]

\* utils.py 85-98
is_valid_network(network) == normalize_network(network) # ValueError

\* the transaction shapes: pay and axfer, with and without group id, rekey
\* and close-to, with fee and amount zero or not
TransactionShapes ==
    {Transaction(type, sender, fee, first, gh, group, rekey_to, receiver, amt,
                 close_to, IF type = TXN_TYPE_ASSET_TRANSFER THEN USDC_TESTNET_ASA_ID ELSE 0) :
        type \in {TXN_TYPE_PAYMENT, TXN_TYPE_ASSET_TRANSFER},
        sender \in {ClientAddr, "F"},
        fee \in {0, 2 * MIN_TXN_FEE},
        first \in {1, 100},
        gh \in {TESTNET_GENESIS_HASH, MAINNET_GENESIS_HASH},
        group \in {NoneVal, "g1"},
        rekey_to \in {NoneVal, OtherAddr},
        receiver \in {PayToAddr, "F"},
        amt \in {0, PriceAtomic},
        close_to \in {NoneVal, OtherAddr}}

NetworkStrings ==
    {ALGORAND_MAINNET_CAIP2, ALGORAND_TESTNET_CAIP2,
     "algorand-mainnet", "algorand-testnet", "algorand",
     "algorand:unknown", "ethereum", "eip155:8453", ""}

UtilsInit ==
    /\ HandlersIdle
    /\ server = ServerStart(get_addresses)
    /\ v1 = V1Unused
    /\ cache = CacheUnused
    /\ registry = RegistryUnused
    /\ signing = SigningUnused
    /\ \E txn \in TransactionShapes, signer \in {NoneVal, "client"} :
          utils = UtilsStart(txn, signer, ALGORAND_TESTNET_CAIP2)

UtilsIdle == UNCHANGED <<handlers, server, v1, cache, registry, signing>>

\* the transaction is signed or not and encoded: msgpack_encode
utils_msgpack_encode ==
    /\ utils.stage = "built"
    /\ utils' = [utils EXCEPT
          !.stage = "encoded",
          !.encoded = msgpack_encode(IF utils.signer = NoneVal THEN dictify(utils.txn)
                                     ELSE SignedBy(dictify(utils.txn), utils.signer))]
    /\ UtilsIdle

\* a call of decode_base64_transaction on the encoding
utils_decode_base64_transaction ==
    /\ utils.stage = "encoded"
    /\ LET out == decode_base64_transaction(utils.encoded)
       IN utils' = [utils EXCEPT !.stage = "decoded", !.raised = out.raised,
                                 !.info = out.info]
    /\ UtilsIdle

\* a call of normalize_network on a network string, and one on its result
utils_normalize_network ==
    /\ utils.normalized = "unset"
    /\ \E network \in NetworkStrings :
          utils' = [utils EXCEPT
              !.network = network,
              !.normalized = normalize_network(network),
              !.again = IF normalize_network(network) = ValueError THEN "unset"
                        ELSE normalize_network(normalize_network(network))]
    /\ UtilsIdle

\* a call of is_valid_network on the same string
utils_is_valid_network ==
    /\ utils.normalized # "unset"
    /\ utils.valid = "unset"
    /\ utils' = [utils EXCEPT
          !.valid = IF is_valid_network(utils.network) THEN "True" ELSE "False"]
    /\ UtilsIdle

UtilsNext ==
    \/ utils_msgpack_encode
    \/ utils_decode_base64_transaction
    \/ utils_normalize_network
    \/ utils_is_valid_network

UtilsSpec == UtilsInit /\ [][UtilsNext]_vars

\* ------------------------------------------------------ client cache
\* _get_client of FacilitatorAlgorandSigner (signers.py 300-317) and of
\* ExactAvmScheme (client.py 66-83), the same code on the same fields.
\* The callers run concurrently; a caller may be preempted between any two
\* statements, and each statement on the dict is atomic.

MAINNET_ALGOD_URL == "https://mainnet-api.algonode.cloud"
TESTNET_ALGOD_URL == "https://testnet-api.algonode.cloud"
CustomAlgodUrl == "http://localhost:4001"

\* NETWORK_CONFIGS.get(caip2_network)["algod_url"]; None without a config
config_algod_url(caip2_network) ==
    IF caip2_network = ALGORAND_MAINNET_CAIP2 THEN MAINNET_ALGOD_URL
    ELSE IF caip2_network = ALGORAND_TESTNET_CAIP2 THEN TESTNET_ALGOD_URL
    ELSE NoneVal

\* algod.AlgodClient(token, algod_url), made by caller c for the network
AlgodClient(caip2_network, algod_url, c) ==
    [network |-> caip2_network, algod_url |-> algod_url, by |-> c]

\* the network strings _get_client is called with
CacheNetworks ==
    {ALGORAND_MAINNET_CAIP2, "algorand-mainnet", "algorand",
     ALGORAND_TESTNET_CAIP2, "algorand-testnet", "ethereum"}

CacheInit ==
    /\ HandlersIdle
    /\ server = ServerStart(get_addresses)
    /\ v1 = V1Unused
    /\ utils = UtilsUnused
    /\ registry = RegistryUnused
    /\ signing = SigningUnused
    /\ \E custom_algod_url \in {"", CustomAlgodUrl} :
          cache = CacheStart(custom_algod_url)

CacheIdle == UNCHANGED <<handlers, server, v1, utils, registry, signing>>

\* caller c moves on: its fields change as given, the dict stays
CallerStep(c, at, fields) ==
    cache' = [cache EXCEPT !.callers[c] = [fields EXCEPT !.at = at]]

\* caller c enters _get_client(network): caip2_network = normalize_network(network)
get_client_normalize(c) ==
    /\ cache.callers[c].at = "idle"
    /\ \E network \in CacheNetworks :
          LET caip2_network == normalize_network(network)
          IN CallerStep(c, IF caip2_network = ValueError THEN "raised" ELSE "normalized",
                        [cache.callers[c] EXCEPT !.network = network,
                                                 !.caip2_network = caip2_network])
    /\ CacheIdle

\* if caip2_network in self._clients
get_client_contains(c) ==
    /\ cache.callers[c].at = "normalized"
    /\ CallerStep(c, IF cache.callers[c].caip2_network \in DOMAIN cache.clients
                     THEN "found" ELSE "missing", cache.callers[c])
    /\ CacheIdle

\* return self._clients[caip2_network]
get_client_return_cached(c) ==
    /\ cache.callers[c].at = "found"
    /\ CallerStep(c, "returned",
                  [cache.callers[c] EXCEPT
                      !.result = cache.clients[cache.callers[c].caip2_network]])
    /\ CacheIdle

\* the URL is chosen and client = algod.AlgodClient(...) is made; a
\* network without a config raises when no custom URL is set
get_client_create(c) ==
    /\ cache.callers[c].at = "missing"
    /\ LET caip2_network == cache.callers[c].caip2_network
           algod_url == IF cache.custom_algod_url # "" THEN cache.custom_algod_url
                        ELSE config_algod_url(caip2_network)
       IN IF algod_url = NoneVal
          THEN CallerStep(c, "raised", cache.callers[c])
          ELSE CallerStep(c, "created",
                          [cache.callers[c] EXCEPT
                              !.client = AlgodClient(caip2_network, algod_url, c)])
    /\ CacheIdle

\* get_client_store keyed by the string the caller passed
get_client_store_RawKey(c) ==
    /\ cache.callers[c].at = "created"
    /\ cache' = [cache EXCEPT
          !.clients = (cache.callers[c].network :> cache.callers[c].client)
                          @@ cache.clients,
          !.callers[c] = [cache.callers[c] EXCEPT
                             !.at = "returned", !.result = cache.callers[c].client]]
    /\ CacheIdle

\* self._clients[caip2_network] = client; return client
get_client_store(c) ==
    /\ cache.callers[c].at = "created"
    /\ cache' = [cache EXCEPT
          !.clients = (cache.callers[c].caip2_network :> cache.callers[c].client)
                          @@ cache.clients,
          !.callers[c] = [cache.callers[c] EXCEPT
                             !.at = "returned", !.result = cache.callers[c].client]]
    /\ CacheIdle

CacheNext ==
    \E c \in Callers :
        \/ get_client_normalize(c)
        \/ get_client_contains(c)
        \/ get_client_return_cached(c)
        \/ get_client_create(c)
        \/ get_client_store(c)

CacheSpec == CacheInit /\ [][CacheNext]_vars

\* --------------------------------------------------------- registry
\* The scheme registry of x402Client (register, register_v1 and the lookup
\* by network, as the specification's section 4.1 gives them) and
\* register_exact_avm_client of exact/register.py, which fills it.

V1_NETWORKS == {"algorand-mainnet", "algorand-testnet"}

\* the networks looked up and registered, and the family wildcards
RegistryNetworks ==
    {"eip155:1", "eip155:8453", ALGORAND_MAINNET_CAIP2, ALGORAND_TESTNET_CAIP2,
     "solana:mainnet"}
RegistryPatterns == RegistryNetworks \cup {"eip155:*", "algorand:*"}

\* the part of a CAIP-2 string before the colon, over the strings above
Family(network) ==
    IF network \in {"eip155:1", "eip155:8453", "eip155:*"} THEN "eip155"
    ELSE IF network \in {ALGORAND_MAINNET_CAIP2, ALGORAND_TESTNET_CAIP2, "algorand:*"}
    THEN "algorand"
    ELSE "solana"

Wildcard(family) == family \o ":*"

\* lookup with the wildcard tried before the full match
lookup_WildcardFirst(routes, network) ==
    IF Wildcard(Family(network)) \in DOMAIN routes
    THEN routes[Wildcard(Family(network))]
    ELSE IF network \in DOMAIN routes THEN routes[network]
    ELSE NotFound

\* lookup(scheme, network): the full match first, else the wildcard of the
\* network's family, else not found
lookup(routes, network) ==
    IF network \in DOMAIN routes THEN routes[network]
    ELSE IF Wildcard(Family(network)) \in DOMAIN routes
    THEN routes[Wildcard(Family(network))]
    ELSE NotFound

\* register(pattern, handler) on the routes: a duplicate pattern replaces
Registered(reg, pattern, handler) ==
    [reg EXCEPT !.routes = (pattern :> handler) @@ reg.routes,
                !.log = Append(reg.log, [pattern |-> pattern, handler |-> handler])]

RECURSIVE RegisterAll(_, _, _)
RegisterAll(reg, networks, handler) ==
    IF networks = <<>> THEN reg
    ELSE RegisterAll(Registered(reg, Head(networks), handler), Tail(networks), handler)

\* `if networks:` of a None, a str or a list
NetworksGiven(networks) ==
    \/ networks.py = "list" /\ networks.items # <<>>
    \/ networks.py = "str" /\ networks.items # <<"">>

AvmScheme == "ExactAvmScheme"

\* register.py 51-64: the given networks, one by one, or the wildcard; then
\* the V1 scheme for every legacy network
register_exact_avm_client(reg, networks) ==
    LET v2 == IF NetworksGiven(networks)
              THEN RegisterAll(reg, networks.items, AvmScheme)
              ELSE Registered(reg, "algorand:*", AvmScheme)
    IN [v2 EXCEPT !.v1_routes = @ \cup V1_NETWORKS, !.networks = networks]

RegistryHandlers == {"H0", "H1"}

NetworksArgs ==
    {NetworksArg("None", <<>>), NetworksArg("list", <<>>), NetworksArg("str", <<"">>),
     NetworksArg("str", <<ALGORAND_TESTNET_CAIP2>>),
     NetworksArg("list", <<ALGORAND_TESTNET_CAIP2>>),
     NetworksArg("list", <<ALGORAND_MAINNET_CAIP2, ALGORAND_TESTNET_CAIP2>>)}

RegistryInit ==
    /\ HandlersIdle
    /\ server = ServerStart(get_addresses)
    /\ v1 = V1Unused
    /\ utils = UtilsUnused
    /\ cache = CacheUnused
    /\ registry = RegistryUnused
    /\ signing = SigningUnused

RegistryIdle == UNCHANGED <<handlers, server, v1, utils, cache, signing>>

\* client.register(pattern, handler)
registry_register ==
    /\ registry.looked = ""
    /\ Len(registry.log) < MaxRegistrations
    /\ \E pattern \in RegistryPatterns, handler \in RegistryHandlers :
          registry' = Registered(registry, pattern, handler)
    /\ RegistryIdle

\* register_exact_avm_client(client, signer, networks)
registry_register_exact_avm_client ==
    /\ registry.looked = ""
    /\ registry.networks = NetworksUnset
    /\ Len(registry.log) < MaxRegistrations
    /\ \E networks \in NetworksArgs :
          registry' = register_exact_avm_client(registry, networks)
    /\ RegistryIdle

\* a lookup of the handler for a network, once the registrations are made
\* (the registry is written at startup and read thereafter)
registry_lookup ==
    /\ registry.looked = ""
    /\ \E network \in RegistryNetworks :
          registry' = [registry EXCEPT !.looked = network,
                                       !.found = lookup(registry.routes, network)]
    /\ RegistryIdle

RegistryNext ==
    \/ registry_register
    \/ registry_register_exact_avm_client
    \/ registry_lookup

RegistrySpec == RegistryInit /\ [][RegistryNext]_vars

\* ------------------------------------------------- built-in signer
\* FacilitatorAlgorandSigner.sign_group (signers.py 436-486) called on
\* arguments of its own.

IndexError == "IndexError"

\* a Python list subscript: the 1-based place of list[idx] in a list of n
\* entries, a negative idx counting from the end; 0 when out of range
PyPlace(n, idx) ==
    IF idx >= 0 /\ idx < n THEN idx + 1
    ELSE IF idx < 0 /\ idx + n >= 0 THEN idx + n + 1
    ELSE 0

\* signers.py 455-484: the entry decoded, its inner transaction signed with
\* the fee payer's key (a signature it carried is dropped), encoded again
SignEntry(txn_bytes, fee_payer) == [txn_bytes EXCEPT !.sig = fee_payer]

\* signers.py 451-484, the loop over indexes_to_sign from its k-th entry on
RECURSIVE SignLoop(_, _, _, _, _)
SignLoop(group, results, fee_payer, indexes_to_sign, k) ==
    IF k > Len(indexes_to_sign) THEN [raised |-> NoneVal, results |-> results]
    ELSE LET idx == indexes_to_sign[k]
         IN IF idx >= Len(group)
            THEN SignLoop(group, results, fee_payer, indexes_to_sign, k + 1)
            ELSE IF PyPlace(Len(group), idx) = 0
            THEN [raised |-> IndexError, results |-> <<>>]
            ELSE SignLoop(group,
                          [results EXCEPT ![PyPlace(Len(group), idx)] =
                              SignEntry(group[PyPlace(Len(group), idx)],
                                        fee_payer)],
                          fee_payer, indexes_to_sign, k + 1)

\* signers.py 319-326 and 446-486: ValueError for a fee payer without key,
\* else a copy of the list with the entries at indexes_to_sign signed
FacilitatorAlgorandSigner_sign_group(accounts, group, fee_payer, indexes_to_sign) ==
    IF fee_payer \notin accounts THEN [raised |-> ValueError, results |-> <<>>]
    ELSE SignLoop(group, group, fee_payer, indexes_to_sign, 1)

\* the entries of a group given to sign_group: the fee payer's unsigned
\* payment, the client's signed transfer, a transfer signed by another
SigningEntries ==
    {WireTxn(TXN_TYPE_PAYMENT, "F", NoneVal, 2 * MIN_TXN_FEE, TESTNET_GENESIS_HASH, "g1"),
     WireTxn(TXN_TYPE_ASSET_TRANSFER, ClientAddr, "client", 0, TESTNET_GENESIS_HASH, "g1"),
     WireTxn(TXN_TYPE_ASSET_TRANSFER, OtherAddr, "other", 0, TESTNET_GENESIS_HASH, "g1")}

SigningGroups ==
    {<<a>> : a \in SigningEntries}
        \cup {<<a, b>> : a \in SigningEntries, b \in SigningEntries}

\* the lists of at most MaxIndexes indexes, from below the group to above it
IndexLists ==
    UNION {[1..n -> (0 - 3) .. 2] : n \in 0 .. MaxIndexes}

SignerInit ==
    /\ HandlersIdle
    /\ server = ServerStart(get_addresses)
    /\ v1 = V1Unused
    /\ utils = UtilsUnused
    /\ cache = CacheUnused
    /\ registry = RegistryUnused
    /\ \E accounts \in {{"F"}, {"F", "G"}}, group \in SigningGroups,
          fee_payer \in {"F", "G"}, indexes_to_sign \in IndexLists :
          signing = SigningStart(accounts, group, fee_payer, indexes_to_sign)

\* a call of sign_group; the caller's list is copied, never written
signer_sign_group ==
    /\ ~signing.called
    /\ LET out == FacilitatorAlgorandSigner_sign_group(
                      signing.accounts, signing.group_bytes, signing.fee_payer,
                      signing.indexes_to_sign)
       IN signing' = [signing EXCEPT !.called = TRUE,
                                     !.group_bytes_after = signing.group_bytes,
                                     !.results = out.results,
                                     !.raised = out.raised]
    /\ UNCHANGED <<handlers, server, v1, utils, cache, registry>>

SignerNext == signer_sign_group

SignerSpec == SignerInit /\ [][SignerNext]_vars

\* ------------------------------------------------------------ claims
\* Shorthands the claims share.

\* the received group's entries, decoded, and the payment transaction
Group == payload.paymentGroup
IndexInGroup == payload.paymentIndex >= 0 /\ payload.paymentIndex < Len(Group)
PaymentTxn == decode_transaction_bytes(Group[payload.paymentIndex + 1])
TxnAt(i) == decode_transaction_bytes(Group[i + 1])

\* the signer calls made so far, by method
CallsOf(fn) == {k \in 1..Len(calls) : calls[k].fn = fn}

VerifyReturned == verifyResult.status = "returned"
VerifyValid == VerifyReturned /\ verifyResult.is_valid
SettleReturned == settleResult.status = "returned"

\* the reasons of verify's steps 1-5, of its security pass (step 6), of its
\* payment checks (step 7) and of its fee-payer block (step 9)
StructureReasons ==
    {ERR_UNSUPPORTED_SCHEME, ERR_NETWORK_MISMATCH, ERR_EMPTY_GROUP,
     ERR_GROUP_TOO_LARGE, ERR_INVALID_PAYMENT_INDEX, ERR_GROUP_DECODE_FAILED,
     ERR_MISSING_GROUP_ID, ERR_INVALID_GROUP_ID, ERR_GENESIS_HASH_MISMATCH}
SecurityReasons ==
    {ERR_REKEY_DETECTED, ERR_CLOSE_TO_DETECTED, ERR_BLOCKED_TXN_TYPE}
PaymentReasons ==
    {ERR_INVALID_ASSET_ID, ERR_RECIPIENT_MISMATCH, ERR_AMOUNT_INSUFFICIENT,
     ERR_MISSING_SIGNATURE}

\* C1: settle succeeds only if the verify it ran at its start returned
\* isValid = true.  When that verify returned isValid = false, settle returns
\* success = false with verify's reason and payer and transaction "", and its
\* own body makes no signer call: no sign_group, send_group or
\* confirm_transaction follows the verify.
C1_SettleRequiresValidVerify ==
    (op = "settle" /\ VerifyReturned) =>
        /\ (SettleReturned /\ settleResult.success) => verifyResult.is_valid
        /\ ~verifyResult.is_valid =>
              /\ \A k \in 1..Len(calls) :
                    /\ calls[k].by = "verify"
                    /\ calls[k].fn \notin {"send_group", "confirm_transaction"}
              /\ pc = "done" =>
                    /\ SettleReturned
                    /\ ~settleResult.success
                    /\ settleResult.error_reason = verifyResult.invalid_reason
                    /\ settleResult.payer = verifyResult.payer
                    /\ settleResult.transaction = ""

\* settle has refused a payload whose verify signed the fee-payer
\* transaction and then failed in simulation
C1_Witness ==
    /\ op = "settle" /\ pc = "done"
    /\ VerifyReturned /\ ~verifyResult.is_valid
    /\ verifyResult.invalid_reason = ERR_SIMULATION_FAILED
    /\ SettleReturned /\ settleResult.error_reason = ERR_SIMULATION_FAILED
    /\ CallsOf("sign_group") # {}

C3_SignsOnlyFeePayerTxn ==
    \A k \in CallsOf("sign_group") :
        LET c == calls[k]
        IN /\ c.fee_payer = requirements.feePayer
           /\ c.fee_payer \in get_addresses
           /\ c.group = Group
           /\ Cardinality(c.indexes) = 1
           /\ \A i \in c.indexes :
                 /\ i >= 0 /\ i < Len(c.group)
                 /\ LET t == decode_transaction_bytes(c.group[i + 1])
                    IN /\ t.type = TXN_TYPE_PAYMENT
                       /\ t.sender = c.fee_payer
                       /\ t.receiver = c.fee_payer
                       /\ t.amount = 0
                       /\ t.close_remainder_to = NoneVal
                       /\ t.rekey_to = NoneVal
           /\ ~c.raised =>
                 /\ Len(c.result) = Len(c.group)
                 /\ \A j \in 1..Len(c.group) :
                       (j - 1) \notin c.indexes => c.result[j] = c.group[j]

\* settle has signed the fee-payer transaction of a three-transaction group
C3_Witness ==
    /\ Len(Group) = 3
    /\ \E k \in CallsOf("sign_group") : calls[k].by = "settle" /\ ~calls[k].raised
    /\ \E k \in CallsOf("sign_group") : calls[k].by = "verify" /\ ~calls[k].raised

\* C4: when verify returns isValid = true its payer is the sender of the
\* transaction at paymentIndex, and a successful settle reports that payer.
C4_PayerIsPaymentSender ==
    /\ VerifyValid =>
          /\ IndexInGroup
          /\ verifyResult.payer = PaymentTxn.sender
    /\ (op = "settle" /\ SettleReturned /\ settleResult.success) =>
          /\ IndexInGroup
          /\ settleResult.payer = PaymentTxn.sender

\* settle has succeeded on a group whose payment is not the first transaction
\* and whose first transaction has another sender
C4_Witness ==
    /\ op = "settle" /\ SettleReturned /\ settleResult.success
    /\ payload.paymentIndex = 1
    /\ settleResult.payer = ClientAddr
    /\ TxnAt(0).sender # ClientAddr

C5_WitnessShort ==
    /\ VerifyReturned
    /\ verifyResult.invalid_reason = ERR_AMOUNT_INSUFFICIENT
    /\ PaymentTxn.asset_amount = requirements.amount.val - 1

\* the three risks of a decoded transaction that verify's step 6 refuses
HasRekey(t) == t.rekey_to # NoneVal
HasCloseTo(t) ==
    \/ t.type = TXN_TYPE_PAYMENT /\ t.close_remainder_to # NoneVal
    \/ t.type = TXN_TYPE_ASSET_TRANSFER /\ t.asset_close_to # NoneVal
IsKeyreg(t) == t.type = TXN_TYPE_KEY_REGISTRATION

C6_WitnessRefused ==
    /\ VerifyReturned
    /\ verifyResult.invalid_reason = ERR_REKEY_DETECTED
    /\ IndexInGroup
    /\ ~HasRekey(PaymentTxn)
    /\ \E i \in 0..(Len(Group) - 1) : i # payload.paymentIndex /\ HasRekey(TxnAt(i))

C8_WitnessNoFeePayer ==
    /\ VerifyReturned
    /\ verifyResult.invalid_reason = ERR_FEE_PAYER_TRANSFERRING
    /\ ~Truthy(requirements.feePayer)
    /\ PaymentTxn.sender \in get_addresses
    /\ calls = <<>>

ReachedFeePayerSearch ==
    /\ VerifyReturned
    /\ Truthy(requirements.feePayer)
    /\ requirements.feePayer \in get_addresses
    /\ verifyResult.invalid_reason \notin
          StructureReasons \cup SecurityReasons \cup PaymentReasons
          \cup {ERR_FEE_PAYER_TRANSFERRING}

\* the 0-based indexes of the transactions the fee payer sends, and of those
\* among them that are payments
FromFeePayer ==
    {i \in 0..(Len(Group) - 1) : TxnAt(i).sender = requirements.feePayer}
PayFromFeePayer == {i \in FromFeePayer : TxnAt(i).type = TXN_TYPE_PAYMENT}
First(S) == CHOOSE i \in S : \A j \in S : i <= j

IsFeePayerShaped(t) ==
    /\ t.type = TXN_TYPE_PAYMENT
    /\ t.amount = 0
    /\ t.receiver = t.sender

C12_WitnessAccepted ==
    /\ VerifyValid
    /\ Len(Group) = 3

C13_WitnessFeePayerTxn ==
    /\ VerifyReturned
    /\ verifyResult.invalid_reason = ERR_GENESIS_HASH_MISMATCH
    /\ IndexInGroup
    /\ PaymentTxn.genesis_hash = get_genesis_hash(requirements.network)
    /\ \E i \in 0..(Len(Group) - 1) :
          /\ TxnAt(i).sender = requirements.feePayer
          /\ TxnAt(i).genesis_hash # get_genesis_hash(requirements.network)

\* C14: every payload verify accepts has 1 <= len(paymentGroup) <= 16 and
\* 0 <= paymentIndex < len(paymentGroup).  Past the scheme and network
\* checks, an empty group is refused with empty_group, one of 17 or more
\* entries with group_too_large, and otherwise a paymentIndex below 0 or at
\* or above the length with invalid_payment_index; none of the three reasons
\* is given to a group of 1 to 16 entries with paymentIndex inside it, so 16
\* entries and paymentIndex = len - 1 pass.
C14_GroupSizeAndIndex ==
    /\ VerifyValid =>
          /\ 1 <= Len(Group) /\ Len(Group) <= MAX_GROUP_SIZE
          /\ 0 <= payload.paymentIndex /\ payload.paymentIndex < Len(Group)
    /\ (/\ VerifyReturned
        /\ verifyResult.invalid_reason \notin
              {ERR_UNSUPPORTED_SCHEME, ERR_NETWORK_MISMATCH}) =>
          LET reason == verifyResult.invalid_reason
          IN /\ reason = ERR_EMPTY_GROUP <=> Len(Group) = 0
             /\ reason = ERR_GROUP_TOO_LARGE <=> Len(Group) >= 17
             /\ reason = ERR_INVALID_PAYMENT_INDEX <=>
                   /\ 1 <= Len(Group) /\ Len(Group) <= 16
                   /\ (payload.paymentIndex < 0 \/ payload.paymentIndex >= Len(Group))

\* verify has accepted a group of 16 entries whose payment is the last one
C14_Witness ==
    /\ VerifyValid
    /\ Len(Group) = 16
    /\ payload.paymentIndex = Len(Group) - 1

\* verify has refused a group of 17 entries
C14_WitnessTooLarge ==
    /\ VerifyReturned
    /\ verifyResult.invalid_reason = ERR_GROUP_TOO_LARGE
    /\ Len(Group) = 17

\* verify has refused paymentIndex = len(paymentGroup)
C14_WitnessIndex ==
    /\ VerifyReturned
    /\ verifyResult.invalid_reason = ERR_INVALID_PAYMENT_INDEX
    /\ payload.paymentIndex = Len(Group)

\* create_payment_payload has run on requirements it can serve: a supported
\* network, a numeric asset and amount
ClientDone == client.pc = "done"
ClientServes ==
    /\ normalize_network(requirements.network) # ValueError
    /\ requirements.asset.numeric /\ requirements.amount.numeric
ClientReturned == ClientDone /\ client.raised = NoneVal

\* C15 (as claimed): for requirements on a supported network, with no
\* feePayer or a managed one, and a client address the facilitator does not
\* manage, create_payment_payload returns a payload that passes every static
\* check of the facilitator's verify with payer = the client's address.
C15_ClientPayloadVerifies ==
    (/\ ClientDone
     /\ ClientServes
     /\ client.address \notin get_addresses
     /\ (Truthy(requirements.feePayer) => requirements.feePayer \in get_addresses)) =>
        /\ ClientReturned
        /\ VerifyStatic(client.result, accepted, requirements).kind = "continue"
        /\ VerifyStatic(client.result, accepted, requirements).payer = client.address

\* The facilitator does accept the payload create_payment_payload is
\* documented to return: verify finds it valid with the client as payer once
\* the simulation passes, and settle succeeds once send and confirm do.
C15_IntendedPayloadAccepted ==
    (edits = 0 /\ pc = "done") =>
        /\ VerifyReturned
        /\ verifyResult.payer = ClientAddr
        /\ verifyResult.is_valid <=>
              \A k \in 1..Len(calls) : calls[k].by = "verify" => ~calls[k].raised
        /\ op = "settle" =>
              /\ SettleReturned
              /\ settleResult.success <=> \A k \in 1..Len(calls) : ~calls[k].raised
              /\ settleResult.success => settleResult.transaction # ""

\* C16 (as claimed): create_payment_payload returns two transactions, the
\* fee payer's zero-amount self-payment and the axfer, under one group id
\* with paymentIndex 1 when feePayer is set, and the axfer alone, without
\* group id, with paymentIndex 0 otherwise; the transaction at paymentIndex
\* is an axfer from the client to payTo of the asset and amount required.
C16_ClientGroupShape ==
    (ClientDone /\ ClientServes) =>
        /\ ClientReturned
        /\ LET group == client.result.paymentGroup
               index == client.result.paymentIndex
               txn(i) == decode_transaction_bytes(group[i + 1])
           IN /\ IF Truthy(requirements.feePayer)
                 THEN /\ Len(group) = 2 /\ index = 1
                      /\ txn(0).type = TXN_TYPE_PAYMENT
                      /\ txn(0).sender = requirements.feePayer
                      /\ txn(0).receiver = requirements.feePayer
                      /\ txn(0).amount = 0
                      /\ txn(0).group # NoneVal
                      /\ txn(1).group = txn(0).group
                 ELSE /\ Len(group) = 1 /\ index = 0
                      /\ txn(0).group = NoneVal
              /\ \A i \in 0..(Len(group) - 1) : Decodable(group[i + 1])
              /\ txn(index).type = TXN_TYPE_ASSET_TRANSFER
              /\ txn(index).sender = client.address
              /\ txn(index).asset_receiver = requirements.payTo
              /\ txn(index).asset_index = requirements.asset.val
              /\ txn(index).asset_amount = requirements.amount.val

\* C17 (as claimed): create_payment_payload asks the signer to sign exactly
\* the indexes whose sender is the client's address, and in the payload it
\* returns the entry at index i is signed if and only if transaction i is
\* sent by the client; a fee-payer transaction of another address is
\* returned unsigned.
C17_ClientSignsOwnOnly ==
    (ClientDone /\ ClientServes) =>
        /\ client.signer_called
        /\ client.indexes_to_sign =
              {i \in 0..(Len(client.transactions) - 1) :
                  client.transactions[i + 1].snd = client.address}
        /\ ClientReturned
        /\ Len(client.result.paymentGroup) = Len(client.transactions)
        /\ \A i \in 1..Len(client.result.paymentGroup) :
              (client.result.paymentGroup[i].sig # NoneVal)
                 <=> (client.transactions[i].snd = client.address)

\* the client has built its transactions in fee-abstraction mode; the
\* minimum fee it reckons with, and the fees of the group it built
ClientBuiltFeeMode ==
    /\ ClientDone
    /\ Truthy(requirements.feePayer)
    /\ Len(client.transactions) = 2
ClientMinFee == IF client.min_fee = 0 THEN MIN_TXN_FEE ELSE client.min_fee
ClientTotalFee == client.transactions[1].fee + client.transactions[2].fee

C18_WitnessAbove ==
    /\ ClientBuiltFeeMode
    /\ ClientTotalFee > MAX_REASONABLE_FEE

\* verify or settle has been called and has come to its end, by returning
\* or by raising
HandlerEnded == pc \in {"done", "raised"}

\* C19 (as claimed): whatever the payload and the requirements, verify ends
\* by returning a VerifyResponse and settle by returning a SettleResponse; a
\* validation failure (an unsupported network, another scheme, a non-numeric
\* asset or amount) gives isValid = false, success = false, and is not raised.
C19_FailuresAreReturned ==
    HandlerEnded =>
        /\ pc = "done"
        /\ VerifyReturned \/ op = "settle"
        /\ op = "settle" => SettleReturned
        /\ (\/ normalize_network(requirements.network) = ValueError
            \/ normalize_network(accepted.network) = ValueError
            \/ requirements.scheme # SCHEME_EXACT
            \/ accepted.scheme # SCHEME_EXACT
            \/ ~requirements.asset.numeric
            \/ ~requirements.amount.numeric) =>
              /\ ~VerifyValid
              /\ op = "settle" => ~settleResult.success

\* the last signer call, when it raised
LastCall == calls[Len(calls)]
LastCallRaised == calls # <<>> /\ LastCall.raised

\* C20: an exception of the signer is returned, not raised.  When sign_group
\* or simulate_group raises in verify, verify returns isValid = false with
\* simulation_failed and the exception's text as message.  When sign_group or
\* send_group raises in settle, settle returns success = false with
\* transaction_failed, the exception's text and transaction ""; when
\* confirm_transaction raises, send_group having returned txid, settle
\* returns the same with transaction = txid.
C20_SignerFailuresAreReturned ==
    LastCallRaised =>
        /\ verifyResult.status = "returned"
        /\ settleResult.status # "raised"
        /\ pc # "raised"
        /\ LastCall.by = "verify" =>
              /\ LastCall.fn \in {"sign_group", "simulate_group"}
              /\ ~verifyResult.is_valid
              /\ verifyResult.invalid_reason = ERR_SIMULATION_FAILED
              /\ verifyResult.invalid_message = str_e(LastCall.fn)
        /\ LastCall.by = "settle" =>
              /\ LastCall.fn \in {"sign_group", "send_group", "confirm_transaction"}
              /\ pc = "done"
              /\ SettleReturned
              /\ ~settleResult.success
              /\ settleResult.error_reason = ERR_TRANSACTION_FAILED
              /\ settleResult.error_message = str_e(LastCall.fn)
              /\ settleResult.transaction =
                    IF LastCall.fn = "confirm_transaction" THEN txid ELSE ""
              /\ LastCall.fn = "confirm_transaction" =>
                    /\ txid # ""
                    /\ \E k \in CallsOf("send_group") : ~calls[k].raised

\* confirm_transaction has raised after send_group returned the
\* transaction id, and settle has reported the failure with that id
C20_Witness ==
    /\ LastCallRaised
    /\ LastCall.fn = "confirm_transaction"
    /\ SettleReturned
    /\ settleResult.transaction \in TxIds
    /\ settleResult.error_reason = ERR_TRANSACTION_FAILED

\* sign_group has raised in verify
C20_WitnessVerifySign ==
    /\ LastCallRaised
    /\ LastCall.fn = "sign_group" /\ LastCall.by = "verify"
    /\ verifyResult.invalid_reason = ERR_SIMULATION_FAILED

\* the signer calls made by the body of settle and by the body of verify
SettleCalls == {k \in 1..Len(calls) : calls[k].by = "settle"}
VerifyCalls == {k \in 1..Len(calls) : calls[k].by = "verify"}
SettleCallsOf(fn) == SettleCalls \cap CallsOf(fn)

\* C21: within one settle call the steps come in the order verify,
\* sign_group (only with a fee payer), send_group, confirm_transaction:
\* every call of verify's body precedes every call of settle's body, which
\* are made only after verify accepted; send_group is called at most once
\* and, having raised, is the last call; confirm_transaction is called at
\* most once, after send_group returned, with the id send_group returned.
C21_SettleStepOrder ==
    op = "settle" =>
        /\ \A i \in VerifyCalls, j \in SettleCalls : i < j
        /\ SettleCalls # {} => VerifyValid
        /\ Cardinality(SettleCallsOf("sign_group")) <= 1
        /\ Cardinality(CallsOf("send_group")) <= 1
        /\ Cardinality(CallsOf("confirm_transaction")) <= 1
        /\ CallsOf("send_group") \cup CallsOf("confirm_transaction") \subseteq SettleCalls
        /\ \A k \in SettleCallsOf("sign_group") :
              /\ Truthy(requirements.feePayer)
              /\ \A j \in CallsOf("send_group") : k < j
              /\ calls[k].raised => k = Len(calls)
        /\ \A k \in CallsOf("send_group") :
              /\ calls[k].raised => k = Len(calls)
              /\ ~calls[k].raised => calls[k].txid \in TxIds
        /\ \A k \in CallsOf("confirm_transaction") :
              /\ k = Len(calls)
              /\ (k - 1) \in CallsOf("send_group")
              /\ ~calls[k - 1].raised
              /\ calls[k].txid = calls[k - 1].txid
        /\ (SettleReturned /\ settleResult.success) =>
              /\ CallsOf("confirm_transaction") # {}
              /\ settleResult.transaction = LastCall.txid

\* a settle with a fee payer that went through all four steps
C21_Witness ==
    /\ op = "settle" /\ pc = "done"
    /\ settleResult.success
    /\ VerifyCalls # {}
    /\ SettleCallsOf("sign_group") # {}
    /\ CallsOf("confirm_transaction") # {}
    /\ LastCall.txid = "TXID2"

\* a settle whose send_group raised: nothing is called after it
C21_WitnessSendFailed ==
    /\ op = "settle" /\ pc = "done"
    /\ \E k \in CallsOf("send_group") : calls[k].raised

\* C22: get_extra returns {feePayer: a} with a one of the signer's
\* addresses when there is any, and None when there is none; a feePayer so
\* advertised and copied into the requirements passes verify's
\* fee_payer_not_managed check against the same managed set.
C22_GetExtraFeePayerManaged ==
    server.kind.asked =>
        /\ server.managed = {} => server.kind.extra = NoExtra
        /\ server.managed # {} =>
              /\ ~server.kind.extra.none
              /\ server.kind.extra.feePayer \in server.managed
        /\ (server.enhanced /\ server.managed # {}) =>
              /\ server.req.extra.feePayer = server.kind.extra.feePayer
              /\ FeePayerManagedError(server.req.extra.feePayer, server.managed)
                    = NoneVal

\* a facilitator with two addresses advertised the second, and the server
\* copied it into requirements that named another fee payer before
C22_Witness ==
    /\ server.kind.asked /\ server.enhanced
    /\ server.managed = {"F", "G"}
    /\ server.given.feePayer = "X"
    /\ server.req.extra.feePayer = "G"

\* a facilitator without addresses advertises nothing
C22_WitnessNone ==
    /\ server.kind.asked
    /\ server.managed = {}
    /\ server.kind.extra = NoExtra

\* parse_price has been called with a scalar price that reads as a decimal
ParsedMoney ==
    /\ server.parsed.status # "none"
    /\ server.price.form = "money"
    /\ server.price.numeric

\* the registered parsers that answer the price (return non-None), by position
Answering ==
    {i \in 1..Len(server.money_parsers) :
        ParserAnswers(server.money_parsers[i], server.price.usd)}
UpTo(n) == [i \in 1..n |-> i]

\* C23: for a scalar price parse_price returns what the first registered
\* parser that answers returns, and consults no parser registered after it;
\* when no parser answers, or none is registered, every parser was consulted
\* and the result is the default conversion: the network's USDC ASA id,
\* decimals 6.
C23_FirstParserWins ==
    ParsedMoney =>
        IF Answering # {}
        THEN LET first == First(Answering)
             IN /\ server.parsed.status = "returned"
                /\ server.parsed.asset = ParserAsset(server.money_parsers[first])
                /\ server.parsed.amount =
                      ParserResult(server.money_parsers[first], server.price.usd).amount
                /\ server.parsed.consulted = UpTo(first)
        ELSE /\ server.parsed.consulted = UpTo(Len(server.money_parsers))
             /\ normalize_network(server.network) # ValueError =>
                   /\ server.parsed.status = "returned"
                   /\ server.parsed.asset = NumStr(get_usdc_asa_id(server.network))
                   /\ server.parsed.asset.val \in {USDC_TESTNET_ASA_ID, USDC_MAINNET_ASA_ID}
                   /\ server.parsed.decimals = DEFAULT_DECIMALS

\* two parsers answer the price of 150 dollars: the first registered wins
\* and the second is not consulted
C23_Witness ==
    /\ ParsedMoney
    /\ Len(server.money_parsers) = 2
    /\ Answering = {1, 2}
    /\ server.price.usd.whole = 150
    /\ server.parsed.consulted = <<1>>

\* the first parser declines, the second answers
C23_WitnessSecond ==
    /\ ParsedMoney
    /\ Answering = {2}
    /\ server.parsed.consulted = <<1, 2>>
    /\ server.parsed.asset = ParserAsset(server.money_parsers[2])

\* every parser declines: the default conversion to USDC
C23_WitnessDefault ==
    /\ ParsedMoney
    /\ Len(server.money_parsers) = 2
    /\ Answering = {}
    /\ server.parsed.asset = NumStr(USDC_TESTNET_ASA_ID)

\* round(usd x 10^6), halves to the even neighbour as Python rounds
RoundedAtomic(usd) ==
    LET d == 10^(MoneyDigits - DEFAULT_DECIMALS)
        q == usd.frac \div d
        r == usd.frac % d
    IN usd.whole * 10^DEFAULT_DECIMALS
       + (IF 2 * r < d THEN q
          ELSE IF 2 * r > d THEN q + 1
          ELSE IF q % 2 = 0 THEN q ELSE q + 1)

\* parse_price has returned the default conversion of a scalar price
DefaultConverted ==
    /\ ParsedMoney
    /\ Answering = {}
    /\ server.parsed.status = "returned"

\* C24 (as claimed): the default conversion yields round(usd x 10^6) atomic
\* units for every non-negative decimal amount, also for one with more than
\* 6 fractional digits.
C24_AtomicIsRounded ==
    DefaultConverted =>
        /\ server.parsed.amount.numeric
        /\ server.parsed.amount.val = RoundedAtomic(server.price.usd)

\* What the code does: amounts with at most 6 fractional digits convert
\* exactly ("$1.00" to 1000000, 2.5 to 2500000, "$0.001" to 1000), and any
\* further digit is cut off, never rounded up.
C24_AtomicIsTruncated ==
    DefaultConverted =>
        /\ server.parsed.amount.numeric
        /\ server.parsed.amount.val <= RoundedAtomic(server.price.usd)
        /\ server.parsed.amount.val * 10^(MoneyDigits - DEFAULT_DECIMALS)
              <= server.price.usd.frac
                 + (server.price.usd.whole * 10^DEFAULT_DECIMALS)
                   * 10^(MoneyDigits - DEFAULT_DECIMALS)
        /\ server.price.usd.frac % 10^(MoneyDigits - DEFAULT_DECIMALS) = 0 =>
              server.parsed.amount.val = RoundedAtomic(server.price.usd)

\* parse_price has been called with a price that is already an AssetAmount:
\* a dict with an "amount" key, or an AssetAmount object
ParsedAssetAmount ==
    /\ server.parsed.status # "none"
    /\ server.price.form \in {"dict", "object"}

\* the given AssetAmount names no asset: the dict has no "asset" key, the
\* object's asset is None or ""
AssetMissing ==
    \/ server.price.form = "dict" /\ server.price.asset = AbsentStr
    \/ server.price.form = "object" /\ server.price.asset \in {AbsentStr, EmptyStr}

\* C25: for a price that is already an AssetAmount, parse_price returns the
\* given amount and the given asset, puts the network's USDC ASA id in place
\* of the asset only when the asset is missing, and consults no registered
\* money parser.  (An object that names its asset is returned for every
\* network; the other cases look the network's USDC id up and return when
\* the network is a supported one.)
C25_AssetAmountPassthrough ==
    ParsedAssetAmount =>
        /\ server.parsed.consulted = <<>>
        /\ (\/ normalize_network(server.network) # ValueError
            \/ server.price.form = "object" /\ ~AssetMissing) =>
              server.parsed.status = "returned"
        /\ server.parsed.status = "returned" =>
              /\ server.parsed.amount = server.price.amount
              /\ ~AssetMissing => server.parsed.asset = server.price.asset
              /\ server.parsed.asset # server.price.asset =>
                    /\ AssetMissing
                    /\ server.parsed.asset = NumStr(get_usdc_asa_id(server.network))

\* an AssetAmount with its own asset went through unchanged although a
\* parser that answers every amount is registered
C25_Witness ==
    /\ ParsedAssetAmount
    /\ server.parsed.status = "returned"
    /\ server.price.asset = NumStr(12345678)
    /\ server.parsed.asset = NumStr(12345678)
    /\ \E i \in 1..Len(server.money_parsers) : server.money_parsers[i].kind = "always"

\* an AssetAmount without asset got the network's USDC
C25_WitnessMissing ==
    /\ ParsedAssetAmount
    /\ AssetMissing
    /\ server.parsed.asset = NumStr(USDC_MAINNET_ASA_ID)

\* the supported kind handed to enhance_payment_requirements carries a feePayer
KindCarriesFeePayer ==
    ~server.kind.extra.none /\ server.kind.extra.feePayer # Absent

\* what enhance_payment_requirements does with decimals and feePayer
EnhancedDecimalsAndFeePayer ==
    /\ ~server.req.extra.none
    /\ server.req.extra.decimals =
          IF server.given.decimals = NoneInt THEN DEFAULT_DECIMALS
          ELSE server.given.decimals
    /\ server.req.extra.feePayer =
          IF KindCarriesFeePayer THEN server.kind.extra.feePayer
          ELSE server.given.feePayer

\* C26 (as claimed): after enhance_payment_requirements, extra.decimals is
\* set (an existing value kept, else 6), extra.genesisHash and
\* extra.genesisId are those of the requirement's network, and extra.feePayer
\* is the supported kind's when it carries one and is left as it was
\* otherwise.
C26_EnhancedForNetwork ==
    server.enhanced =>
        /\ EnhancedDecimalsAndFeePayer
        /\ server.req.extra.genesisHash = get_genesis_hash(server.req.network)
        /\ server.req.extra.genesisId = genesis_id(server.req.network)
        /\ server.req.extra.genesisHash \in {MAINNET_GENESIS_HASH, TESTNET_GENESIS_HASH}

\* C26 (amended): decimals and feePayer as claimed; genesisHash and genesisId
\* are each left as given when the requirements already carry one, set to
\* the network's when they carry none and the network is supported, and
\* stay absent when the network is not supported.
C26_EnhancedKeepsGiven ==
    server.enhanced =>
        /\ EnhancedDecimalsAndFeePayer
        /\ server.req.network = server.network
        /\ server.req.extra.genesisHash =
              IF server.given.genesisHash # Absent THEN server.given.genesisHash
              ELSE IF normalize_network(server.req.network) = ValueError THEN Absent
              ELSE get_genesis_hash(server.req.network)
        /\ server.req.extra.genesisId =
              IF server.given.genesisId # Absent THEN server.given.genesisId
              ELSE IF normalize_network(server.req.network) = ValueError THEN Absent
              ELSE genesis_id(server.req.network)

\* requirements for testnet that came with mainnet's genesis hash keep it,
\* and take the feePayer of the supported kind over the one they had
C26_Witness ==
    /\ server.enhanced
    /\ server.req.network = ALGORAND_TESTNET_CAIP2
    /\ server.req.extra.genesisHash = MAINNET_GENESIS_HASH
    /\ server.given.feePayer = "X"
    /\ server.req.extra.feePayer = "F"
    /\ server.req.extra.decimals = DEFAULT_DECIMALS

\* requirements without extra for a supported network get all of it; the
\* supported kind carries no feePayer and none is added
C26_WitnessFilled ==
    /\ server.enhanced
    /\ server.given.none
    /\ ~KindCarriesFeePayer
    /\ server.req.extra = ReqExtra(DEFAULT_DECIMALS, Absent, TESTNET_GENESIS_HASH,
                                   "testnet-v1.0")

\* requirements for a network that is not supported get no genesis info
C26_WitnessUnsupported ==
    /\ server.enhanced
    /\ normalize_network(server.req.network) = ValueError
    /\ server.req.extra.genesisHash = Absent
    /\ server.req.extra.decimals = 2

\* The V2 inputs the V1 dicts translate to: every network through the
\* V1-to-V2 table, the payload's own network included.
TranslatedRequirements == V2Requirements(v1.requirements)
TranslatedAccepted == V2Accepted_OwnNetwork(v1.payload, v1.requirements)

\* what the V2 handler decides on the translated inputs before it calls the
\* signer
TranslatedDecision ==
    IF v1.op = "settle" /\ normalize_network(TranslatedAccepted.network) = ValueError
    THEN Decision("raise", ValueError, "", NoneInt)
    ELSE VerifyStatic(v1.payload.payload, TranslatedAccepted, TranslatedRequirements)

V1Returned == v1.stage = "returned"

\* C27 (as claimed): the V1 facilitator's verify and settle give the verdict
\* (isValid or success, reason, payer, transaction) the V2 facilitator gives
\* on the translated inputs, and the network of the V1 settle response is
\* the V2 response's network mapped back through the V2-to-V1 table.
C27_V1SameVerdictAsV2 ==
    V1Returned =>
        /\ TranslatedDecision.kind = "raise" <=> v1.response.status = "raised"
        /\ TranslatedDecision.kind = "return" =>
              /\ ~v1.response.ok
              /\ v1.response.reason = TranslatedDecision.reason
              /\ v1.response.payer = TranslatedDecision.payer
              /\ v1.response.transaction = ""
        /\ TranslatedDecision.kind = "continue" =>
              /\ v1.response.payer = TranslatedDecision.payer
              /\ v1.op = "verify" =>
                    /\ v1.response.ok = verifyResult.is_valid
                    /\ v1.response.reason = verifyResult.invalid_reason
              /\ v1.op = "settle" =>
                    /\ v1.response.ok = settleResult.success
                    /\ v1.response.reason = settleResult.error_reason
                    /\ v1.response.transaction = settleResult.transaction
        /\ (v1.op = "settle" /\ v1.response.status = "returned") =>
              v1.response.network = V2ToV1Network(TranslatedAccepted.network)

\* What holds of the code: the same, for a V1 payload that names the network
\* of the requirements.
C27_V1SameVerdictSameNetwork ==
    (V1Returned /\ TranslatedAccepted.network = TranslatedRequirements.network)
        => C27_V1SameVerdictAsV2

\* the encoding of the transaction has been decoded
Decoded == utils.stage = "decoded"

C28_WitnessUnsignedPay ==
    /\ Decoded
    /\ utils.signer = NoneVal
    /\ utils.txn.type = TXN_TYPE_PAYMENT
    /\ utils.txn.group = NoneVal
    /\ utils.info.amount = 0
    /\ ~utils.info.is_signed

\* normalize_network has been applied to utils.network
Normalized == utils.normalized # "unset"

\* C30: normalize_network returns the two supported CAIP-2 ids unchanged,
\* maps algorand-mainnet and algorand to the mainnet id and algorand-testnet
\* to the testnet id, and raises ValueError for every other input, an
\* algorand: id with an unknown reference included; applied to its own
\* result it returns that result; and is_valid_network is true exactly when
\* normalize_network does not raise.
C30_NormalizeNetwork ==
    Normalized =>
        /\ utils.normalized =
              CASE utils.network \in {ALGORAND_MAINNET_CAIP2, ALGORAND_TESTNET_CAIP2}
                      -> utils.network
                [] utils.network \in {"algorand-mainnet", "algorand"}
                      -> ALGORAND_MAINNET_CAIP2
                [] utils.network = "algorand-testnet" -> ALGORAND_TESTNET_CAIP2
                [] OTHER -> ValueError
        /\ utils.normalized # ValueError => utils.again = utils.normalized
        /\ utils.valid # "unset" =>
              (utils.valid = "True" <=> utils.normalized # ValueError)

\* the shorthand "algorand" went to the mainnet id and is valid
C30_Witness ==
    /\ Normalized
    /\ utils.network = "algorand"
    /\ utils.normalized = ALGORAND_MAINNET_CAIP2
    /\ utils.again = ALGORAND_MAINNET_CAIP2
    /\ utils.valid = "True"

\* an algorand: id with an unknown reference raised and is not valid
C30_WitnessUnknown ==
    /\ Normalized
    /\ utils.network = "algorand:unknown"
    /\ utils.normalized = ValueError
    /\ utils.valid = "False"

\* the callers whose _get_client call has returned a client
Returned == {c \in Callers : cache.callers[c].at = "returned"}

\* every caller has returned or raised
AllCallersDone == \A c \in Callers : cache.callers[c].at \in {"returned", "raised"}

\* the URL a client for the network is to point at
ExpectedAlgodUrl(caip2_network) ==
    IF cache.custom_algod_url # "" THEN cache.custom_algod_url
    ELSE config_algod_url(caip2_network)

\* C29: under every interleaving of concurrent _get_client calls the
\* _clients dict is keyed by CAIP-2 ids only, each entry holding a client
\* made for its key, so a legacy name and the CAIP-2 id of a network share
\* the entry; every caller that returns holds a client for the network it
\* asked for; and once all callers are done the dict has an entry for
\* exactly the networks that were asked for and supported.
C29_ClientCacheWellFormed ==
    /\ DOMAIN cache.clients \subseteq NETWORK_CONFIGS
    /\ \A k \in DOMAIN cache.clients :
          /\ cache.clients[k].network = k
          /\ cache.clients[k].algod_url = ExpectedAlgodUrl(k)
    /\ \A c \in Returned :
          /\ cache.callers[c].result.network = normalize_network(cache.callers[c].network)
          /\ cache.callers[c].result.algod_url =
                ExpectedAlgodUrl(normalize_network(cache.callers[c].network))
    /\ AllCallersDone =>
          DOMAIN cache.clients = {cache.callers[c].caip2_network : c \in Returned}

\* double initialization: two callers, one with the legacy name and one
\* with the CAIP-2 id of mainnet, each made a client of its own, and the
\* dict holds the one entry
C29_Witness ==
    /\ AllCallersDone
    /\ \E c, d \in Returned :
          /\ cache.callers[c].network = "algorand-mainnet"
          /\ cache.callers[d].network = ALGORAND_MAINNET_CAIP2
          /\ cache.callers[c].result.by = c
          /\ cache.callers[d].result.by = d
    /\ DOMAIN cache.clients = {ALGORAND_MAINNET_CAIP2}

\* callers for both networks and one that raised: two entries
C29_WitnessTwoNetworks ==
    /\ AllCallersDone
    /\ DOMAIN cache.clients = NETWORK_CONFIGS
    /\ \E c \in Callers : cache.callers[c].at = "raised"

\* the handler of the last registration of the pattern, NotFound when the
\* pattern was never registered
RECURSIVE LastRegistered(_, _)
LastRegistered(log, pattern) ==
    IF log = <<>> THEN NotFound
    ELSE IF log[Len(log)].pattern = pattern THEN log[Len(log)].handler
    ELSE LastRegistered(SubSeq(log, 1, Len(log) - 1), pattern)

\* a lookup has been made
LookedUp == registry.looked # ""

\* C31: a lookup returns the handler last registered for the full network
\* when there is one, else the handler last registered for the wildcard of
\* the network's family, else nothing, whatever was registered for other
\* families; and register_exact_avm_client registers algorand:* exactly
\* when it is given no networks.
C31_MostSpecificWins ==
    /\ LookedUp =>
          registry.found =
             IF LastRegistered(registry.log, registry.looked) # NotFound
             THEN LastRegistered(registry.log, registry.looked)
             ELSE LastRegistered(registry.log, Wildcard(Family(registry.looked)))
    /\ registry.networks # NetworksUnset =>
          ((\E i \in 1 .. Len(registry.log) :
               registry.log[i] = [pattern |-> "algorand:*", handler |-> AvmScheme])
             <=> ~NetworksGiven(registry.networks))

\* H0 for eip155:* and then H1 for eip155:1: the lookup of eip155:1 found H1
C31_Witness ==
    /\ LookedUp
    /\ Len(registry.log) >= 2
    /\ registry.log[1] = [pattern |-> "eip155:*", handler |-> "H0"]
    /\ registry.log[2] = [pattern |-> "eip155:1", handler |-> "H1"]
    /\ registry.looked = "eip155:1"
    /\ registry.found = "H1"

\* the same registrations: eip155:8453 found H0
C31_WitnessWildcard ==
    /\ LookedUp
    /\ Len(registry.log) = 2
    /\ registry.log[1] = [pattern |-> "eip155:*", handler |-> "H0"]
    /\ registry.log[2] = [pattern |-> "eip155:1", handler |-> "H1"]
    /\ registry.looked = "eip155:8453"
    /\ registry.found = "H0"

\* the same registrations: a Solana network found nothing
C31_WitnessOtherFamily ==
    /\ LookedUp
    /\ Len(registry.log) = 2
    /\ registry.log[1] = [pattern |-> "eip155:*", handler |-> "H0"]
    /\ registry.log[2] = [pattern |-> "eip155:1", handler |-> "H1"]
    /\ registry.looked = "solana:mainnet"
    /\ registry.found = NotFound

\* register_exact_avm_client with no networks: testnet found the AVM scheme
\* through algorand:*
C31_WitnessAvmWildcard ==
    /\ LookedUp
    /\ registry.networks = NetworksArg("None", <<>>)
    /\ registry.log = <<[pattern |-> "algorand:*", handler |-> AvmScheme]>>
    /\ registry.looked = ALGORAND_TESTNET_CAIP2
    /\ registry.found = AvmScheme

\* the group settle is to send: the payload's entries, the entries that
\* settle's sign_group returned in place of them when it was called
SignedForSettle ==
    IF \E k \in 1..Len(calls) :
          calls[k].fn = "sign_group" /\ calls[k].by = "settle" /\ ~calls[k].raised
    THEN calls[CHOOSE k \in SettleCallsOf("sign_group") : ~calls[k].raised].result
    ELSE payload.paymentGroup

\* settle's send_group got the payload's entries and the signed fee-payer
\* entry, whatever the signer did with them
SendGroupGetsSignedGroup ==
    \A k \in SettleCallsOf("send_group") : calls[k].group = SignedForSettle

\* the example's signer hands the bytes on unchanged
ExampleSignerSendsRaw ==
    \A k \in SettleCallsOf("send_group") :
        calls[k].sent.signer = AlgorandFacilitatorSigner =>
            /\ calls[k].sent.endpoint = "send_raw_transaction"
            /\ calls[k].sent.body =
                  [i \in 1..Len(calls[k].group) |-> Submitted(calls[k].group[i], FALSE)]

\* C32: the group settle gives send_group is the payload's entries in
\* group order, the fee-payer entry as sign_group returned it, and the
\* built-in FacilitatorAlgorandSigner hands exactly those bytes to the
\* node's raw-transaction endpoint, no transaction decoded and encoded again.
C32_SettleSendsSignedBytesRaw ==
    \A k \in SettleCallsOf("send_group") :
        /\ calls[k].group = SignedForSettle
        /\ (calls[k].sent.signer = FacilitatorAlgorandSigner
               /\ calls[k].sent.endpoint # NoneVal) =>
              /\ calls[k].sent.endpoint = "send_raw_transaction"
              /\ calls[k].sent.body =
                    [i \in 1..Len(calls[k].group) |-> Submitted(calls[k].group[i], FALSE)]

\* every confirm_transaction call waits the default number of rounds
ConfirmWaitsDefaultRounds ==
    \A k \in CallsOf("confirm_transaction") : calls[k].rounds = DEFAULT_ROUNDS

\* a settle call ends, by returning or by raising
SettleTerminates == (op = "settle") ~> HandlerEnded

\* C33: every settle call, each signer call returning or raising, comes to
\* its end with a SettleResponse, and its confirm_transaction call waits
\* the default 4 rounds.
C33_SettleEndsWithResponse ==
    /\ (op = "settle") ~> (pc = "done" /\ settleResult.status = "returned")
    /\ [](\A k \in CallsOf("confirm_transaction") : calls[k].rounds = 4)

\* the V1 settle returned a response to a request under a legacy name
V1SettledLegacy ==
    /\ V1Returned
    /\ v1.op = "settle"
    /\ v1.response.status = "returned"
    /\ v1.requirements.network \in {"algorand-mainnet", "algorand-testnet", "algorand"}

\* C34: for each legacy name the V1 bridge accepts (algorand-mainnet,
\* algorand-testnet and the shorthand algorand) the network of the V1 settle
\* response is the name the request used, the name mapped to CAIP-2 and
\* back being the name itself.
C34_V1ResponseEchoesNetwork ==
    V1SettledLegacy =>
        /\ v1.response.network = v1.requirements.network
        /\ V2ToV1Network(V1ToV2Network(v1.requirements.network)) = v1.requirements.network

\* the same for the two names of V1_NETWORKS, which the V2-to-V1 table holds
V1NetworksEchoed ==
    (V1SettledLegacy /\ v1.requirements.network \in V1_NETWORKS) =>
        /\ v1.response.network = v1.requirements.network
        /\ V2ToV1Network(V1ToV2Network(v1.requirements.network)) = v1.requirements.network

\* C35: verify changes nothing on chain: the signer calls of verify's body
\* are sign_group and simulate_group only (get_addresses apart, which reads
\* the signer's own accounts), and a handler call that is a verify leaves
\* no send_group and no confirm_transaction call behind.
C35_VerifySubmitsNothing ==
    /\ \A k \in VerifyCalls : calls[k].fn \in {"sign_group", "simulate_group"}
    /\ op = "verify" =>
          /\ CallsOf("send_group") = {}
          /\ CallsOf("confirm_transaction") = {}

\* a verify that signed for the fee payer, simulated and accepted
C35_Witness ==
    /\ op = "verify"
    /\ pc = "done"
    /\ verifyResult.is_valid
    /\ Len(calls) = 2
    /\ calls[1].fn = "sign_group"
    /\ calls[2].fn = "simulate_group"

\* every static check of verify passes on the inputs: scheme and network,
\* group size and payment index, decoding, group id, genesis hash, the
\* security pass, the payment transaction, the self-custody guard and, with
\* a fee payer asked for, the fee-payer validation
StaticChecksPass ==
    LET decoded_txns == DecodeGroup(payload.paymentGroup)
        payment_txn == decoded_txns[payload.paymentIndex + 1]
    IN /\ normalize_network(requirements.network) # ValueError
       /\ SchemeNetworkError(accepted, requirements) = NoneVal
       /\ GroupSizeError(payload.paymentGroup, payload.paymentIndex) = NoneVal
       /\ GroupDecodeError(payload.paymentGroup) = NoneVal
       /\ GroupIdError(decoded_txns) = NoneVal
       /\ GenesisHashError(decoded_txns,
                           get_genesis_hash(normalize_network(requirements.network))) = NoneVal
       /\ SecurityError(decoded_txns) = NoneVal
       /\ PaymentTxnError(payment_txn, requirements) = NoneVal
       /\ SelfCustodyError(payment_txn, get_addresses) = NoneVal
       /\ Truthy(requirements.feePayer) =>
             FeePayerError(decoded_txns, requirements.feePayer, get_addresses) = NoneVal

\* C36: verify calls sign_group and simulate_group only after every static
\* check has passed; a handler called on inputs that fail a static check
\* ends without any signer call other than get_addresses.
C36_SignerCalledAfterStaticChecks ==
    /\ calls # <<>> => StaticChecksPass
    /\ (HandlerEnded /\ ~StaticChecksPass) => calls = <<>>

\* all checks passed and verify's first signer call was sign_group
C36_Witness ==
    /\ op = "verify"
    /\ StaticChecksPass
    /\ calls # <<>>
    /\ calls[1].fn = "sign_group"
    /\ calls[1].by = "verify"

\* verify refused a payment to another recipient and called no signer method
C36_WitnessRefused ==
    /\ op = "verify"
    /\ pc = "done"
    /\ verifyResult.invalid_reason = ERR_RECIPIENT_MISMATCH
    /\ calls = <<>>

\* The reason of the first check, in the claimed order, that the inputs
\* fail: ValueError where the check cannot be made (int() of the asset or
\* of the amount raises), NoneVal when the inputs fail no static check.
FirstFailingReason ==
    LET group == payload.paymentGroup
        index == payload.paymentIndex
        txns == DecodeGroup(group)
        pay == txns[index + 1]
        fee_payer == requirements.feePayer
        risky == {i \in 1..Len(txns) : validate_no_security_risks(txns[i]) # NoneVal}
        sent_by_fee_payer == {i \in 1..Len(txns) : txns[i].sender = fee_payer}
    IN
    IF accepted.scheme # SCHEME_EXACT \/ requirements.scheme # SCHEME_EXACT
    THEN ERR_UNSUPPORTED_SCHEME
    ELSE IF accepted.network # requirements.network THEN ERR_NETWORK_MISMATCH
    ELSE IF group = <<>> THEN ERR_EMPTY_GROUP
    ELSE IF Len(group) > MAX_GROUP_SIZE THEN ERR_GROUP_TOO_LARGE
    ELSE IF index < 0 \/ index >= Len(group) THEN ERR_INVALID_PAYMENT_INDEX
    ELSE IF \E i \in 1..Len(group) : ~Decodable(group[i]) THEN ERR_GROUP_DECODE_FAILED
    ELSE IF Len(txns) > 1 /\ ~Truthy(txns[1].group) THEN ERR_MISSING_GROUP_ID
    ELSE IF \E i \in 2..Len(txns) : txns[i].group # txns[1].group THEN ERR_INVALID_GROUP_ID
    ELSE IF \E i \in 1..Len(txns) :
               txns[i].genesis_hash # get_genesis_hash(requirements.network)
    THEN ERR_GENESIS_HASH_MISMATCH
    ELSE IF risky # {} THEN validate_no_security_risks(txns[First(risky)])
    ELSE IF pay.type # TXN_TYPE_ASSET_TRANSFER THEN ERR_INVALID_ASSET_ID
    ELSE IF ~requirements.asset.numeric THEN ValueError
    ELSE IF pay.asset_index # requirements.asset.val THEN ERR_INVALID_ASSET_ID
    ELSE IF pay.asset_receiver # requirements.payTo THEN ERR_RECIPIENT_MISMATCH
    ELSE IF ~requirements.amount.numeric THEN ValueError
    ELSE IF pay.asset_amount = NoneInt \/ pay.asset_amount < requirements.amount.val
    THEN ERR_AMOUNT_INSUFFICIENT
    ELSE IF ~pay.is_signed THEN ERR_MISSING_SIGNATURE
    ELSE IF pay.sender \in get_addresses THEN ERR_FEE_PAYER_TRANSFERRING
    ELSE IF ~Truthy(fee_payer) THEN NoneVal
    ELSE IF fee_payer \notin get_addresses THEN ERR_FEE_PAYER_NOT_MANAGED
    ELSE IF sent_by_fee_payer = {} THEN ERR_FEE_PAYER_MISSING
    ELSE validate_fee_payer_transaction(txns[First(sent_by_fee_payer)], fee_payer)

C37_WitnessRecipient ==
    /\ VerifyReturned
    /\ payload.paymentGroup # <<>>
    /\ FirstFailingReason = ERR_RECIPIENT_MISMATCH
    /\ verifyResult.invalid_reason = ERR_RECIPIENT_MISMATCH
    /\ LET pay == DecodeGroup(payload.paymentGroup)[payload.paymentIndex + 1]
       IN pay.asset_amount < requirements.amount.val

\* the sign_group calls of verify's body and of settle's body
VerifySignCalls == VerifyCalls \cap CallsOf("sign_group")
SettleSignCalls == SettleCalls \cap CallsOf("sign_group")

\* C38: settle's sign_group call names one index, the index verify's
\* sign_group call named in the same settle call, and the transaction at it
\* is the first the fee payer sends and passed
\* validate_fee_payer_transaction; settle calls sign_group at most once.
C38_SettleSignsValidatedIndex ==
    /\ Cardinality(SettleSignCalls) <= 1
    /\ \A k \in SettleSignCalls :
          /\ calls[k].fee_payer = requirements.feePayer
          /\ Cardinality(calls[k].indexes) = 1
          /\ \E j \in VerifySignCalls :
                j < k /\ calls[j].indexes = calls[k].indexes
          /\ \A i \in calls[k].indexes :
                LET decoded_txns == DecodeGroup(payload.paymentGroup)
                IN /\ decoded_txns[i + 1].sender = requirements.feePayer
                   /\ \A h \in 1..i : decoded_txns[h].sender # requirements.feePayer
                   /\ validate_fee_payer_transaction(decoded_txns[i + 1],
                                                     requirements.feePayer) = NoneVal

\* settle signed for the fee payer in a group where the fee payer sends two
\* transactions
C38_Witness ==
    /\ op = "settle"
    /\ SettleSignCalls # {}
    /\ Cardinality({i \in 1..Len(payload.paymentGroup) :
          DecodeGroup(payload.paymentGroup)[i].sender = requirements.feePayer}) >= 2

\* sign_group returned a list
SignGroupReturned == signing.called /\ signing.raised = NoneVal

\* the 0-based indexes of the group that indexes_to_sign names
NamedIndexes == {signing.indexes_to_sign[k] : k \in 1..Len(signing.indexes_to_sign)}

\* C39: sign_group of the built-in signer returns a list as long as
\* group_bytes whose entry at every index that indexes_to_sign does not
\* name is the input's entry, leaves the caller's list as it was, and for a
\* fee payer it has no key for raises ValueError and returns nothing.
C39_SignGroupFrame ==
    signing.called =>
        /\ signing.group_bytes_after = signing.group_bytes
        /\ signing.fee_payer \notin signing.accounts =>
              signing.raised = ValueError /\ signing.results = <<>>
        /\ signing.fee_payer \in signing.accounts =>
              /\ signing.raised = NoneVal
              /\ Len(signing.results) = Len(signing.group_bytes)
              /\ \A i \in 0 .. Len(signing.group_bytes) - 1 :
                    i \notin NamedIndexes =>
                        signing.results[i + 1] = signing.group_bytes[i + 1]

\* the same for lists of indexes none of which is negative
SignGroupFrameFromZero ==
    (signing.called /\ \A i \in NamedIndexes : i >= 0) =>
        /\ signing.group_bytes_after = signing.group_bytes
        /\ signing.fee_payer \notin signing.accounts =>
              signing.raised = ValueError /\ signing.results = <<>>
        /\ signing.fee_payer \in signing.accounts =>
              /\ signing.raised = NoneVal
              /\ Len(signing.results) = Len(signing.group_bytes)
              /\ \A i \in 0 .. Len(signing.group_bytes) - 1 :
                    i \notin NamedIndexes =>
                        signing.results[i + 1] = signing.group_bytes[i + 1]

=============================================================================
